---- MODULE Spec2Model ----
(***************************************************************************)
(* Model of the 4-Castr scoring core:                                      *)
(*   csv-pull/market-data/src/calculate_confidence_scores.py               *)
(*   csv-pull/market-data/src/fetch_astro_data.py                          *)
(*   csv-pull/market-data/src/calculate_fibonacci_levels.py                *)
(*   csv-pull/market-data/src/fetch.py (the rows of the price tables)      *)
(*                                                                         *)
(* Conventions                                                             *)
(*   - Python None is the string "None".                                   *)
(*   - A str is a tuple of one-character strings, so that `in` (substring) *)
(*     and .lower() are computed, not assumed.                             *)
(*   - An instant (datetime / pandas Timestamp) is a number of ticks,      *)
(*     TicksPerDay ticks to the day; a 'YYYY-MM-DD' date is a day number.  *)
(*   - A score inside the scorer is a number of thousandths of a point;    *)
(*     round(x, 2) turns it into a number of hundredths.                   *)
(*   - A longitude is a number of 1/LonScale degrees; in the daily loop of  *)
(*     the event generator it is a number of 1/LonUnit degrees (4 decimals) *)
(*     and the ephemeris gives it in 1/RawUnit degrees; dates of the        *)
(*     generator are day numbers counted from 2000-01-01.                   *)
(*   - A price is a whole number of price units, a retracement level a     *)
(*     number of thousandths of a unit (ratios are in thousandths); a cell   *)
(*     of a price table is None, not-a-number or a float.                   *)
(***************************************************************************)
EXTENDS Integers, Sequences, FiniteSets, TLC

VARIABLES
    aspects,        \* aspects.csv: rows appended by the event generator
    ingresses,      \* ingresses.csv
    lunar_phases,   \* lunar_phases.csv
    retrogrades,    \* retrogrades.csv
    lunar_cycle,    \* lunar_cycle_18yr.csv
    current_date,   \* the scoring run's instant (main: datetime.now())
    score_result,   \* {} before the first call of calculate_confidence_score,
                    \* then {the record the last call returned}
    symbol,         \* identify_sector: argument
    category,       \* identify_sector: argument
    sector,         \* identify_sector: returned value
    longitude,      \* get_zodiac_sign: argument L
    turns,          \* k: the second call is made with L + 360k
    sign_result,    \* <<get_zodiac_sign(L), get_zodiac_sign(L + 360k)>>
    price_df,       \* <category>_solstice_equinox.csv after load_price_data
    anchor_price,   \* {} before get_anchor_price is called, then
                    \* {<<anchor, the value it returned>>}
    all_results,    \* {} before the level calculator has run, then
                    \* {the list it saves as fibonacci_levels.json}
    astro_files,    \* the event tables that exist as files in ASTRO_DIR
    fibonacci_data, \* fibonacci_levels.json as the scorer loads it
    all_scores,     \* confidence_scores_<date>.json as the scorer saves it
    featured_symbols, \* featured_symbols_<date>.json
    scoring_exit,   \* "idle" before the scorer's main has run, then the line
                    \* it printed last: "no_data" or "complete"
    generator_date, \* event generator, main: current_date (a day number
                    \* counted from 2000-01-01)
    day_count,      \* main: day_count
    previous_positions,  \* main: {} for None, else {the positions of the
                         \* day processed last}
    previous_retrogrades \* main: body -> retrograde flag of the day before

logVars    == <<aspects, ingresses, lunar_phases, retrogrades, lunar_cycle>>
scoreVars  == <<current_date, score_result>>
sectorVars == <<symbol, category, sector>>
signVars   == <<longitude, turns, sign_result>>
levelVars  == <<price_df, anchor_price, all_results>>
runVars    == <<astro_files, fibonacci_data, all_scores, featured_symbols,
               scoring_exit>>
genVars    == <<generator_date, day_count, previous_positions,
               previous_retrogrades>>
vars       == <<logVars, scoreVars, sectorVars, signVars, levelVars, runVars,
               genVars>>

None == "None"

\* ------------------------------------------------------------------ bounds

\* Resolution of an instant: ticks per day (tick 0 of a day is midnight).
TicksPerDay == 2
\* Resolution of a longitude: steps per degree.
LonScale == 2
\* get_zodiac_sign is called with L + 360k for k in -MaxTurns..MaxTurns.
MaxTurns == 2
\* The day the scorer is run on.
ScoreDay == 40
\* Rows in all five event tables together (specification Spec).
MaxEvents == 4
\* Rows in the tables a component specification fills.
MaxRows == 2
\* Characters of a symbol identify_sector is called with (specification SpecSector).
MaxSymbolLen == 8
\* Entries of the level data a scoring run is made on (specification SpecRun).
MaxSymbols == 3
\* Rows of the price table get_anchor_price is called with (specification SpecAnchor).
MaxPriceRows == 2
\* Rows of the price table the level calculator is run on (specification SpecLevels).
MaxLevelRows == 4
\* Days between two seasonal anchors (more than the 7 days a resolution probes).
AnchorGap == 8
\* Days an event generator run processes (START_DATE to END_DATE).
MaxDays == 4
\* First days of the runs of specification SpecSweep: two nodal cycles of
\* 6793.5 days, after which the cycle positions of whole days repeat.
SweepDays == 13587

\* ------------------------------------------------------------ helpers

Min(S) == CHOOSE x \in S : \A y \in S : x <= y

Abs(x) == IF x < 0 THEN -x ELSE x

\* Python int(a / b) for b > 0: truncation toward zero.
IntDiv(a, b) == IF a >= 0 THEN a \div b ELSE -((-a) \div b)

\* Python `sub in s` on strings.
Contains(s, sub) ==
    \E i \in 0..(Len(s) - Len(sub)) :
        \A j \in 1..Len(sub) : s[i + j] = sub[j]

UPPER == <<"A","B","C","D","E","F","G","H","I","J","K","L","M",
           "N","O","P","Q","R","S","T","U","V","W","X","Y","Z">>
LOWER == <<"a","b","c","d","e","f","g","h","i","j","k","l","m",
           "n","o","p","q","r","s","t","u","v","w","x","y","z">>

\* str.lower(), character by character.
LowerChar(c) ==
    IF \E i \in 1..Len(UPPER) : UPPER[i] = c
    THEN LOWER[CHOOSE i \in 1..Len(UPPER) : UPPER[i] = c]
    ELSE c

Lower(s) == [i \in 1..Len(s) |-> LowerChar(s[i])]

\* ------------------------------------------------- fetch_astro_data.py

PRIMARY_PLANETS == <<"Sun", "Moon", "Mercury", "Venus", "Mars", "Jupiter", "Saturn">>

OUTER_PLANETS == <<"Uranus", "Neptune", "Pluto">>

\* OUTER_PLANETS[name]['influence']
OuterInfluence(body) ==
    CASE body = "Uranus"  -> 90
      [] body = "Neptune" -> 85
      [] body = "Pluto"   -> 95

\* Mutant: the window of the trine reaches into the window of the square.
ASPECTS_overlapping == <<
    [name |-> "conjunction", degrees |-> 0,   orb |-> 8, nature |-> "neutral"],
    [name |-> "sextile",     degrees |-> 60,  orb |-> 4, nature |-> "harmonious"],
    [name |-> "square",      degrees |-> 90,  orb |-> 6, nature |-> "harsh"],
    [name |-> "trine",       degrees |-> 120, orb |-> 30, nature |-> "harmonious"],
    [name |-> "opposition",  degrees |-> 180, orb |-> 6, nature |-> "harsh"] >>

ASPECTS == <<
    [name |-> "conjunction", degrees |-> 0,   orb |-> 8, nature |-> "neutral"],
    [name |-> "sextile",     degrees |-> 60,  orb |-> 4, nature |-> "harmonious"],
    [name |-> "square",      degrees |-> 90,  orb |-> 6, nature |-> "harsh"],
    [name |-> "trine",       degrees |-> 120, orb |-> 6, nature |-> "harmonious"],
    [name |-> "opposition",  degrees |-> 180, orb |-> 6, nature |-> "harsh"] >>

ZODIAC_SIGNS == <<
    [name |-> "Aries",       ruler |-> "Mars",    element |-> "fire"],
    [name |-> "Taurus",      ruler |-> "Venus",   element |-> "earth"],
    [name |-> "Gemini",      ruler |-> "Mercury", element |-> "air"],
    [name |-> "Cancer",      ruler |-> "Moon",    element |-> "water"],
    [name |-> "Leo",         ruler |-> "Sun",     element |-> "fire"],
    [name |-> "Virgo",       ruler |-> "Mercury", element |-> "earth"],
    [name |-> "Libra",       ruler |-> "Venus",   element |-> "air"],
    [name |-> "Scorpio",     ruler |-> "Mars",    element |-> "water"],
    [name |-> "Sagittarius", ruler |-> "Jupiter", element |-> "fire"],
    [name |-> "Capricorn",   ruler |-> "Saturn",  element |-> "earth"],
    [name |-> "Aquarius",    ruler |-> "Saturn",  element |-> "air"],
    [name |-> "Pisces",      ruler |-> "Jupiter", element |-> "water"] >>

\* sign_index = int(longitude / 30) % 12; ZODIAC_SIGNS[sign_index]
get_zodiac_sign(lon) ==
    ZODIAC_SIGNS[(IntDiv(lon, 30 * LonScale) % 12) + 1]

\* --------------------------------------- calculate_confidence_scores.py

\* Thresholds, in points.
FEATURED_THRESHOLD == 85
FAVORABLE_THRESHOLD == 70
NEUTRAL_THRESHOLD == 50

\* Iteration order of the SECTOR_RULERSHIPS dict (insertion order).
SECTOR_ORDER == <<"tech", "athletics", "finance", "luxury", "healthcare",
                  "real_estate", "communication", "entertainment">>

\* SECTOR_RULERSHIPS[s]
SECTOR_RULERSHIPS(s) ==
    CASE s = "tech" ->
        [rulers |-> {"Uranus", "Mercury"},
         favorable_signs |-> {"Aquarius", "Gemini", "Virgo"},
         keywords |-> <<<<"t","e","c","h">>,
                       <<"s","o","f","t","w","a","r","e">>,
                       <<"i","n","n","o","v","a","t","i","o","n">>,
                       <<"d","i","g","i","t","a","l">>,
                       <<"a","i">>,
                       <<"c","o","m","p","u","t","e","r">>>>]
      [] s = "athletics" ->
        [rulers |-> {"Mars"},
         favorable_signs |-> {"Aries", "Scorpio"},
         keywords |-> <<<<"s","p","o","r","t">>,
                       <<"a","t","h","l","e","t","i","c">>,
                       <<"n","i","k","e">>,
                       <<"f","i","t","n","e","s","s">>,
                       <<"g","y","m">>,
                       <<"e","n","e","r","g","y">>>>]
      [] s = "finance" ->
        [rulers |-> {"Jupiter", "Venus"},
         favorable_signs |-> {"Taurus", "Sagittarius", "Libra"},
         keywords |-> <<<<"b","a","n","k">>,
                       <<"f","i","n","a","n","c","i","a","l">>,
                       <<"w","e","a","l","t","h">>,
                       <<"i","n","s","u","r","a","n","c","e">>,
                       <<"c","a","p","i","t","a","l">>>>]
      [] s = "luxury" ->
        [rulers |-> {"Venus"},
         favorable_signs |-> {"Taurus", "Libra"},
         keywords |-> <<<<"l","u","x","u","r","y">>,
                       <<"b","e","a","u","t","y">>,
                       <<"f","a","s","h","i","o","n">>,
                       <<"j","e","w","e","l","r","y">>,
                       <<"c","o","s","m","e","t","i","c">>>>]
      [] s = "healthcare" ->
        [rulers |-> {"Neptune", "Pluto"},
         favorable_signs |-> {"Virgo", "Pisces", "Scorpio"},
         keywords |-> <<<<"h","e","a","l","t","h">>,
                       <<"p","h","a","r","m","a">>,
                       <<"m","e","d","i","c","a","l">>,
                       <<"h","o","s","p","i","t","a","l">>,
                       <<"d","r","u","g">>,
                       <<"b","i","o","t","e","c","h">>>>]
      [] s = "real_estate" ->
        [rulers |-> {"Saturn"},
         favorable_signs |-> {"Capricorn", "Taurus"},
         keywords |-> <<<<"r","e","a","l"," ","e","s","t","a","t","e">>,
                       <<"c","o","n","s","t","r","u","c","t","i","o","n">>,
                       <<"p","r","o","p","e","r","t","y">>,
                       <<"b","u","i","l","d","i","n","g">>,
                       <<"h","o","m","e">>>>]
      [] s = "communication" ->
        [rulers |-> {"Mercury"},
         favorable_signs |-> {"Gemini", "Virgo"},
         keywords |-> <<<<"m","e","d","i","a">>,
                       <<"c","o","m","m","u","n","i","c","a","t","i","o","n">>,
                       <<"t","e","l","e","c","o","m">>,
                       <<"b","r","o","a","d","c","a","s","t">>,
                       <<"n","e","w","s">>>>]
      [] s = "entertainment" ->
        [rulers |-> {"Sun", "Venus"},
         favorable_signs |-> {"Leo", "Libra"},
         keywords |-> <<<<"e","n","t","e","r","t","a","i","n","m","e","n","t">>,
                       <<"m","o","v","i","e">>,
                       <<"g","a","m","i","n","g">>,
                       <<"m","u","s","i","c">>,
                       <<"s","t","r","e","a","m","i","n","g">>>>]

\* sector_info when the symbol has no sector. `not sector_info` is true of it.
NoSectorInfo == [rulers |-> {}, favorable_signs |-> {}, keywords |-> <<>>]

\* any(keyword in symbol_lower for keyword in data['keywords']) of one sector
HasKeyword(symbol_lower, s) ==
    \E i \in 1..Len(SECTOR_RULERSHIPS(s).keywords) :
        Contains(symbol_lower, SECTOR_RULERSHIPS(s).keywords[i])

\* category_defaults.get(category, None)
category_defaults(cat) ==
    CASE cat = "crypto"      -> "tech"
      [] cat = "forex"       -> "finance"
      [] cat = "rates-macro" -> "finance"
      [] cat = "stress"      -> "finance"
      [] cat = "commodities" -> "real_estate"
      [] cat = "equities"    -> None
      [] OTHER               -> None

\* The loop `for sector, data in SECTOR_RULERSHIPS.items()` from position i on,
\* over the order `order`, then the category default.
RECURSIVE ScanSectors(_, _, _, _)
ScanSectors(order, i, symbol_lower, cat) ==
    IF i > Len(order) THEN category_defaults(cat)
    ELSE IF HasKeyword(symbol_lower, order[i]) THEN order[i]
    ELSE ScanSectors(order, i + 1, symbol_lower, cat)

\* Mutant: the sectors are scanned in reverse declaration order.
identify_sector_reversed(sym, cat) ==
    ScanSectors([i \in 1..Len(SECTOR_ORDER) |-> SECTOR_ORDER[Len(SECTOR_ORDER) + 1 - i]],
                1, Lower(sym), cat)

\* Mutant: the keywords are matched against the symbol as given (no .lower()).
identify_sector_case_sensitive(sym, cat) ==
    ScanSectors(SECTOR_ORDER, 1, sym, cat)

identify_sector(sym, cat) ==
    ScanSectors(SECTOR_ORDER, 1, Lower(sym), cat)

\* ASPECT_SCORES[nature].get(type, 0), in points
ASPECT_SCORES(nature, type) ==
    IF nature = "harmonious"
    THEN CASE type = "conjunction" -> 0
           [] type = "sextile"     -> 15
           [] type = "trine"       -> 20
           [] OTHER                -> 0
    ELSE IF nature = "harsh"
    THEN CASE type = "square"      -> -15
           [] type = "opposition"  -> -10
           [] OTHER                -> 0
    ELSE 0

\* Half-width, in days, of the aspect window and of the nodal-cycle window.
ASPECT_WINDOW_DAYS == 3
CYCLE_WINDOW_DAYS == 30

\* n points, in thousandths.
Pts(n) == n * 1000

\* timedelta(days=n), in ticks.
Days(n) == n * TicksPerDay

\* pd.to_datetime of a 'YYYY-MM-DD' cell: midnight of that day.
ToDatetime(day) == day * TicksPerDay

\* datetime.strftime('%Y-%m-%d'): the day an instant falls in.
StrfDate(instant) == instant \div TicksPerDay

\* round(x, 2) of a non-negative score: thousandths to hundredths, ties to even.
Round2(x) ==
    LET q == x \div 10
        r == x % 10
    IN  IF r < 5 THEN q
        ELSE IF r > 5 THEN q + 1
        ELSE IF q % 2 = 0 THEN q ELSE q + 1

RECURSIVE SeqSum(_)
SeqSum(s) == IF s = <<>> THEN 0 ELSE Head(s) + SeqSum(Tail(s))

\* Mutant: the first Sun ingress up to the date (iloc[0]) instead of the last.
score_ingress_period_first(cd, ingresses_df, sector_info) ==
    IF ingresses_df = <<>> \/ sector_info = NoSectorInfo THEN Pts(15)
    ELSE
      LET sun_ingresses ==
            SelectSeq(ingresses_df,
                      LAMBDA r : r.body = "Sun" /\ ToDatetime(r.date) <= cd)
      IN  IF sun_ingresses = <<>> THEN Pts(15)
          ELSE
            LET current_sign == sun_ingresses[1].sign
            IN  IF current_sign \in sector_info.favorable_signs THEN Pts(30)
                ELSE IF current_sign \in {"Aries", "Leo", "Sagittarius"} THEN Pts(22)
                ELSE IF current_sign \in {"Taurus", "Virgo", "Capricorn"} THEN Pts(20)
                ELSE IF current_sign \in {"Gemini", "Libra", "Aquarius"} THEN Pts(18)
                ELSE Pts(12)

\* Mutant: the missing sector is not tested (sector_info.get on an empty profile).
score_ingress_period_no_sector_test(cd, ingresses_df, sector_info) ==
    IF ingresses_df = <<>> THEN Pts(15)
    ELSE
      LET sun_ingresses ==
            SelectSeq(ingresses_df,
                      LAMBDA r : r.body = "Sun" /\ ToDatetime(r.date) <= cd)
      IN  IF sun_ingresses = <<>> THEN Pts(15)
          ELSE
            LET current_sign == sun_ingresses[Len(sun_ingresses)].sign
            IN  IF current_sign \in sector_info.favorable_signs THEN Pts(30)
                ELSE IF current_sign \in {"Aries", "Leo", "Sagittarius"} THEN Pts(22)
                ELSE IF current_sign \in {"Taurus", "Virgo", "Capricorn"} THEN Pts(20)
                ELSE IF current_sign \in {"Gemini", "Libra", "Aquarius"} THEN Pts(18)
                ELSE Pts(12)

score_ingress_period(cd, ingresses_df, sector_info) ==
    IF ingresses_df = <<>> \/ sector_info = NoSectorInfo THEN Pts(15)
    ELSE
      LET sun_ingresses ==
            SelectSeq(ingresses_df,
                      LAMBDA r : r.body = "Sun" /\ ToDatetime(r.date) <= cd)
      IN  IF sun_ingresses = <<>> THEN Pts(15)
          ELSE
            LET current_sign == sun_ingresses[Len(sun_ingresses)].sign
            IN  IF current_sign \in sector_info.favorable_signs THEN Pts(30)
                ELSE IF current_sign \in {"Aries", "Leo", "Sagittarius"} THEN Pts(22)
                ELSE IF current_sign \in {"Taurus", "Virgo", "Capricorn"} THEN Pts(20)
                ELSE IF current_sign \in {"Gemini", "Libra", "Aquarius"} THEN Pts(18)
                ELSE Pts(12)

\* Mutant: the ruler amplification is left out.
PrimaryAspectScore_unamplified(aspect, sector_rulers) ==
    Pts(ASPECT_SCORES(aspect.aspect_nature, aspect.aspect_type))

\* Body of the loop over primary_aspects: base_score, times 1.5 with a ruler.
PrimaryAspectScore(aspect, sector_rulers) ==
    LET ruler_involved == aspect.body1 \in sector_rulers \/ aspect.body2 \in sector_rulers
        base_score == Pts(ASPECT_SCORES(aspect.aspect_nature, aspect.aspect_type))
    IN  IF ruler_involved THEN (base_score * 3) \div 2 ELSE base_score

\* Body of the loop over bonus_aspects: (influence / 100) * 5 when exact.
BonusAspectScore(bonus) ==
    IF bonus.exact THEN (Pts(bonus.influence_weight) * 5) \div 100 ELSE 0

\* Mutant: the score is returned unclamped.
ClampAspectScore_unclamped(score) == score

\* max(0, min(40, score))
ClampAspectScore(score) ==
    LET m == IF score < Pts(40) THEN score ELSE Pts(40)
    IN  IF m > 0 THEN m ELSE 0

score_planetary_aspects(cd, aspects_df, retrogrades_df, sector_info) ==
    IF aspects_df = <<>> \/ sector_info = NoSectorInfo THEN Pts(20)
    ELSE
      LET start_date == cd - Days(ASPECT_WINDOW_DAYS)
          end_date   == cd + Days(ASPECT_WINDOW_DAYS)
          active_aspects ==
            SelectSeq(aspects_df,
                      LAMBDA r : ToDatetime(r.date) >= start_date
                                 /\ ToDatetime(r.date) <= end_date)
      IN  IF active_aspects = <<>> THEN Pts(20)
          ELSE
            LET sector_rulers == sector_info.rulers
                primary_aspects ==
                  SelectSeq(active_aspects, LAMBDA r : r.primary_scoring = TRUE)
                active_retrogrades ==
                  SelectSeq(retrogrades_df,
                            LAMBDA r : ToDatetime(r.date) >= start_date
                                       /\ ToDatetime(r.date) <= end_date
                                       /\ r.status = "starts")
                penalised ==
                  SelectSeq(active_retrogrades, LAMBDA r : r.body \in sector_rulers)
                bonus_aspects ==
                  SelectSeq(active_aspects, LAMBDA r : r.bonus_eligible = TRUE)
                score ==
                  Pts(20)
                  + SeqSum([i \in 1..Len(primary_aspects) |->
                              PrimaryAspectScore(primary_aspects[i], sector_rulers)])
                  - Pts(10) * Len(penalised)
                  + SeqSum([i \in 1..Len(bonus_aspects) |->
                              BonusAspectScore(bonus_aspects[i])])
            IN  ClampAspectScore(score)

\* phase_scores.get(current_phase, 10), in points
phase_scores(phase) ==
    CASE phase = "new"             -> 18
      [] phase = "waxing_crescent" -> 16
      [] phase = "first_quarter"   -> 15
      [] phase = "waxing_gibbous"  -> 14
      [] phase = "full"            -> 12
      [] phase = "waning_gibbous"  -> 10
      [] phase = "last_quarter"    -> 8
      [] phase = "waning_crescent" -> 6
      [] OTHER                     -> 10

score_lunar_phase(cd, lunar_phases_df) ==
    IF lunar_phases_df = <<>> THEN Pts(10)
    ELSE
      LET phases_before ==
            SelectSeq(lunar_phases_df, LAMBDA r : ToDatetime(r.date) <= cd)
      IN  IF phases_before = <<>> THEN Pts(10)
          ELSE Pts(phase_scores(phases_before[Len(phases_before)].phase))

\* Mutant: 10 points for every bonus-eligible record of the window.
score_18yr_lunar_cycle_cumulative(cd, lunar_cycle_df) ==
    Pts(10) * Len(SelectSeq(lunar_cycle_df,
                    LAMBDA r : ToDatetime(r.date) >= cd - Days(CYCLE_WINDOW_DAYS)
                               /\ ToDatetime(r.date) <= cd + Days(CYCLE_WINDOW_DAYS)
                               /\ r.bonus_eligible = TRUE))

score_18yr_lunar_cycle(cd, lunar_cycle_df) ==
    IF lunar_cycle_df = <<>> THEN 0
    ELSE
      LET active_cycles ==
            SelectSeq(lunar_cycle_df,
                      LAMBDA r : ToDatetime(r.date) >= cd - Days(CYCLE_WINDOW_DAYS)
                                 /\ ToDatetime(r.date) <= cd + Days(CYCLE_WINDOW_DAYS))
          bonus_cycles ==
            SelectSeq(active_cycles, LAMBDA r : r.bonus_eligible = TRUE)
      IN  IF bonus_cycles # <<>> THEN Pts(10) ELSE 0

\* Mutant: the thresholds are compared with > instead of >=.
Rating_strict(total_score) ==
    IF total_score > Pts(FEATURED_THRESHOLD) THEN "featured"
    ELSE IF total_score > Pts(FAVORABLE_THRESHOLD) THEN "favorable"
    ELSE IF total_score > Pts(NEUTRAL_THRESHOLD) THEN "neutral"
    ELSE "unfavorable"

\* The if/elif chain that sets `rating`.
Rating(total_score) ==
    IF total_score >= Pts(FEATURED_THRESHOLD) THEN "featured"
    ELSE IF total_score >= Pts(FAVORABLE_THRESHOLD) THEN "favorable"
    ELSE IF total_score >= Pts(NEUTRAL_THRESHOLD) THEN "neutral"
    ELSE "unfavorable"

\* Mutant: a symbol without sector is scored with the rulerships of tech.
SectorInfo_tech_by_default(sec) ==
    IF sec = None THEN SECTOR_RULERSHIPS("tech") ELSE SECTOR_RULERSHIPS(sec)

\* sector_info = SECTOR_RULERSHIPS.get(sector) if sector else None
SectorInfo(sec) == IF sec = None THEN NoSectorInfo ELSE SECTOR_RULERSHIPS(sec)

calculate_confidence_score(symbol_data, astro_data, cd) ==
    LET sec           == identify_sector(symbol_data.symbol, symbol_data.category)
        sector_info   == SectorInfo(sec)
        ingress_score == score_ingress_period(cd, astro_data.ingresses, sector_info)
        aspects_score == score_planetary_aspects(cd, astro_data.aspects,
                                                 astro_data.retrogrades, sector_info)
        lunar_score   == score_lunar_phase(cd, astro_data.lunar_phases)
        cycle_bonus   == score_18yr_lunar_cycle(cd, astro_data.lunar_cycle)
        base_score    == ingress_score + aspects_score + lunar_score
        total_score   == base_score + cycle_bonus
    IN  [symbol      |-> symbol_data.symbol,
         category    |-> symbol_data.category,
         sector      |-> sec,
         date        |-> StrfDate(cd),
         total_score |-> Round2(total_score),
         base_score  |-> Round2(base_score),
         rating      |-> Rating(total_score),
         components  |-> [ingress_period    |-> Round2(ingress_score),
                          planetary_aspects |-> Round2(aspects_score),
                          lunar_phase       |-> Round2(lunar_score),
                          cycle_bonus       |-> Round2(cycle_bonus)],
         is_featured |-> total_score >= Pts(FEATURED_THRESHOLD)]

\* ------------------------------------------------------- event tables

\* Position of a body in the generator's loops: PRIMARY_PLANETS, then OUTER_PLANETS.
BodyIndex(body) ==
    IF \E i \in 1..Len(PRIMARY_PLANETS) : PRIMARY_PLANETS[i] = body
    THEN CHOOSE i \in 1..Len(PRIMARY_PLANETS) : PRIMARY_PLANETS[i] = body
    ELSE Len(PRIMARY_PLANETS)
         + (CHOOSE i \in 1..Len(OUTER_PLANETS) : OUTER_PLANETS[i] = body)

NatureOf(type) == ASPECTS[CHOOSE i \in 1..Len(ASPECTS) : ASPECTS[i].name = type].nature

\* A row generate_aspects appends for a pair of primary bodies.
PrimaryAspectRow(day, b1, b2, type, isExact) ==
    [date |-> day, body1 |-> b1, body2 |-> b2,
     aspect_type |-> type, aspect_nature |-> NatureOf(type),
     exact |-> isExact, primary_scoring |-> TRUE,
     bonus_eligible |-> FALSE,     \* empty cell: NaN == True is False
     influence_weight |-> 0]       \* empty cell: never read for these rows

\* A row generate_aspects appends for an outer body and a primary body.
BonusAspectRow(day, outer, primary, type) ==
    [date |-> day, body1 |-> outer, body2 |-> primary,
     aspect_type |-> type, aspect_nature |-> NatureOf(type),
     exact |-> TRUE, primary_scoring |-> FALSE,
     bonus_eligible |-> TRUE,
     influence_weight |-> OuterInfluence(outer)]

\* A row detect_ingresses appends; sign and from_sign are indices of ZODIAC_SIGNS.
IngressRow(day, b, signIndex, fromIndex) ==
    [date |-> day, body |-> b,
     sign |-> ZODIAC_SIGNS[signIndex].name,
     from_sign |-> ZODIAC_SIGNS[fromIndex].name,
     ruler |-> ZODIAC_SIGNS[signIndex].ruler,
     element |-> ZODIAC_SIGNS[signIndex].element]

\* A row of retrogrades.csv.
RetrogradeRow(day, b, isRx, isStationary) ==
    [date |-> day, body |-> b,
     status |-> IF isRx THEN "starts" ELSE "ends",
     stationary |-> isStationary,
     primary_scoring |-> BodyIndex(b) <= Len(PRIMARY_PLANETS),
     bonus_eligible |-> BodyIndex(b) > Len(PRIMARY_PLANETS) /\ isStationary]

\* A row of lunar_phases.csv.
LunarPhaseRow(day, ph) == [date |-> day, phase |-> ph]

\* A row of lunar_cycle_18yr.csv.
LunarCycleRow(day, ph, eligible) ==
    [date |-> day, phase |-> ph, bonus_eligible |-> eligible]

\* Order of two aspect rows of one day in generate_aspects' output: the primary
\* rows by pair, then the bonus rows by pair.
AspectRank(r) ==
    <<IF r.primary_scoring THEN 0 ELSE 1, BodyIndex(r.body1), BodyIndex(r.body2)>>

LexLess(a, b) ==
    \E i \in 1..Len(a) : a[i] < b[i] /\ \A j \in 1..(i - 1) : a[j] = b[j]

\* ---------------------------------------------------------- the inputs

WindowDays(half) ==
    {ScoreDay - half - 1, ScoreDay - half, ScoreDay, ScoreDay + half, ScoreDay + half + 1}

AspectDays == WindowDays(ASPECT_WINDOW_DAYS)
CycleDays  == WindowDays(CYCLE_WINDOW_DAYS)
LatestDays == {ScoreDay - 1, ScoreDay, ScoreDay + 1}

AspectTypes == {ASPECTS[i].name : i \in 1..Len(ASPECTS)}
Phases == {"new", "waxing_crescent", "first_quarter", "waxing_gibbous",
           "full", "waning_gibbous", "last_quarter", "waning_crescent"}

PrevSign(i) == IF i = 1 THEN 12 ELSE i - 1

\* The rows the component specifications draw from. Mercury rules tech and not
\* finance, so the Mercury-Mars rows are scored with and without a ruler.
IngressEvents ==
    {IngressRow(d, "Sun", s, PrevSign(s)) : d \in LatestDays, s \in 1..12}
    \cup {IngressRow(d, "Moon", s, PrevSign(s)) : d \in LatestDays, s \in {2, 3}}

AspectEvents ==
    {PrimaryAspectRow(d, "Mercury", "Mars", ty, FALSE) :
        d \in AspectDays, ty \in AspectTypes}
    \cup {BonusAspectRow(d, o, "Sun", "trine") :
            d \in AspectDays, o \in {"Uranus", "Neptune", "Pluto"}}

RetrogradeEvents ==
    {RetrogradeRow(d, b, rx, FALSE) :
        d \in AspectDays, b \in {"Mercury", "Uranus"}, rx \in BOOLEAN}

LunarCycleEvents ==
    {LunarCycleRow(d, "opposition", TRUE) : d \in CycleDays}
    \cup {LunarCycleRow(d, "first_quadrature", FALSE) : d \in CycleDays}

\* The rows specification Spec draws from, all of the scoring day.
DayIngressEvents ==
    {IngressRow(ScoreDay, "Sun", s, PrevSign(s)) : s \in {1, 2, 4, 11}}

DayAspectEvents ==
    {PrimaryAspectRow(ScoreDay, p[1], p[2], ty, FALSE) :
        p \in {<<"Mercury", "Mars">>, <<"Venus", "Jupiter">>},
        ty \in {"sextile", "square", "trine"}}
    \cup {BonusAspectRow(ScoreDay, "Pluto", "Sun", "trine")}

DayRetrogradeEvents == {RetrogradeRow(ScoreDay, "Mercury", TRUE, FALSE)}

DayLunarPhaseEvents == {LunarPhaseRow(ScoreDay, ph) : ph \in Phases}

DayLunarCycleEvents ==
    {LunarCycleRow(ScoreDay, "opposition", TRUE),
     LunarCycleRow(ScoreDay, "first_quadrature", FALSE)}

\* Entries of the level data (fibonacci_levels.json) the scorer is called with.
SymbolData ==
    {[symbol |-> <<"A","A","P","L">>,         category |-> "equities"],
     [symbol |-> <<"A","I">>,                 category |-> "equities"],
     [symbol |-> <<"E","U","R","U","S","D">>, category |-> "forex"]}

Instants == {ToDatetime(ScoreDay) + t : t \in 0..(TicksPerDay - 1)}

\* ------------------------------------------------------- the scoring run

\* The keys of load_astro_data's `files`.
ASTRO_FILES == {"aspects", "ingresses", "lunar_phases", "retrogrades", "lunar_cycle"}

\* Mutant: the rows are used whether the file exists or not.
LoadTable_ignore_missing(key, rows) == rows

\* load_astro_data, one key: the rows of the file if it exists, else pd.DataFrame().
LoadTable(key, rows) == IF key \in astro_files THEN rows ELSE <<>>

\* load_astro_data's result.
AstroData ==
    [aspects      |-> LoadTable("aspects", aspects),
     ingresses    |-> LoadTable("ingresses", ingresses),
     lunar_phases |-> LoadTable("lunar_phases", lunar_phases),
     retrogrades  |-> LoadTable("retrogrades", retrogrades),
     lunar_cycle  |-> LoadTable("lunar_cycle", lunar_cycle)]

\* No price table is loaded and the level calculator has not run.
NoLevels == price_df = <<>> /\ anchor_price = {} /\ all_results = {}

\* All five event files exist; the scoring run has no level data and no output.
NoRun ==
    /\ astro_files = ASTRO_FILES
    /\ fibonacci_data = <<>> /\ all_scores = <<>> /\ featured_symbols = <<>>
    /\ scoring_exit = "idle"

\* The event generator has not started.
NoGenerator ==
    /\ generator_date = 0 /\ day_count = 0
    /\ previous_positions = {} /\ previous_retrogrades = <<>>

NumRows ==
    Len(aspects) + Len(ingresses) + Len(lunar_phases) + Len(retrogrades) + Len(lunar_cycle)

Last(s) == s[Len(s)]

\* The event generator appends the aspect rows of a day: all_aspects.extend(aspects)
AppendAspect(e, cap) ==
    /\ score_result = {}
    /\ "aspects" \in astro_files
    /\ NumRows < cap
    /\ aspects # <<>> =>
         \/ Last(aspects).date < e.date
         \/ Last(aspects).date = e.date /\ LexLess(AspectRank(Last(aspects)), AspectRank(e))
    /\ aspects' = Append(aspects, e)
    /\ UNCHANGED <<ingresses, lunar_phases, retrogrades, lunar_cycle,
                   scoreVars, sectorVars, signVars, levelVars, runVars, genVars>>

\* all_ingresses.extend(ingresses): at most one row per body and day, bodies in order
AppendIngress(e, cap) ==
    /\ score_result = {}
    /\ "ingresses" \in astro_files
    /\ NumRows < cap
    /\ ingresses # <<>> =>
         \/ Last(ingresses).date < e.date
         \/ Last(ingresses).date = e.date
            /\ BodyIndex(Last(ingresses).body) < BodyIndex(e.body)
    /\ ingresses' = Append(ingresses, e)
    /\ UNCHANGED <<aspects, lunar_phases, retrogrades, lunar_cycle,
                   scoreVars, sectorVars, signVars, levelVars, runVars, genVars>>

\* all_retrogrades.append(retrograde_entry)
AppendRetrograde(e, cap) ==
    /\ score_result = {}
    /\ "retrogrades" \in astro_files
    /\ NumRows < cap
    /\ retrogrades # <<>> =>
         \/ Last(retrogrades).date < e.date
         \/ Last(retrogrades).date = e.date
            /\ BodyIndex(Last(retrogrades).body) < BodyIndex(e.body)
    /\ retrogrades' = Append(retrogrades, e)
    /\ UNCHANGED <<aspects, ingresses, lunar_phases, lunar_cycle,
                   scoreVars, sectorVars, signVars, levelVars, runVars, genVars>>

\* all_lunar_phases.append(...): one row per day
AppendLunarPhase(e, cap) ==
    /\ score_result = {}
    /\ "lunar_phases" \in astro_files
    /\ NumRows < cap
    /\ lunar_phases # <<>> => Last(lunar_phases).date < e.date
    /\ lunar_phases' = Append(lunar_phases, e)
    /\ UNCHANGED <<aspects, ingresses, retrogrades, lunar_cycle,
                   scoreVars, sectorVars, signVars, levelVars, runVars, genVars>>

\* all_lunar_cycle_phases.append(...): at most one row per day
AppendLunarCycle(e, cap) ==
    /\ score_result = {}
    /\ "lunar_cycle" \in astro_files
    /\ NumRows < cap
    /\ lunar_cycle # <<>> => Last(lunar_cycle).date < e.date
    /\ lunar_cycle' = Append(lunar_cycle, e)
    /\ UNCHANGED <<aspects, ingresses, lunar_phases, retrogrades,
                   scoreVars, sectorVars, signVars, levelVars, runVars, genVars>>

\* score_result = calculate_confidence_score(symbol_data, astro_data, current_date)
Score(symbol_data) ==
    /\ score_result' = {calculate_confidence_score(symbol_data, AstroData, current_date)}
    /\ UNCHANGED <<logVars, current_date, sectorVars, signVars, levelVars, runVars, genVars>>

Init ==
    /\ aspects = <<>> /\ ingresses = <<>> /\ lunar_phases = <<>>
    /\ retrogrades = <<>> /\ lunar_cycle = <<>>
    /\ current_date \in Instants
    /\ score_result = {}
    /\ symbol = <<>> /\ category = "equities" /\ sector = {}
    /\ longitude = 0 /\ turns = 0 /\ sign_result = {}
    /\ NoLevels /\ NoRun /\ NoGenerator

Next ==
    \/ \E e \in DayAspectEvents : AppendAspect(e, MaxEvents)
    \/ \E e \in DayIngressEvents : AppendIngress(e, MaxEvents)
    \/ \E e \in DayRetrogradeEvents : AppendRetrograde(e, MaxEvents)
    \/ \E e \in DayLunarPhaseEvents : AppendLunarPhase(e, MaxEvents)
    \/ \E e \in DayLunarCycleEvents : AppendLunarCycle(e, MaxEvents)
    \/ \E sd \in SymbolData : Score(sd)

Spec == Init /\ [][Next]_vars

\* Component specifications: the same run, with the tables of one component
\* filled from all the rows of its window.

NextIngress ==
    \/ \E e \in IngressEvents : AppendIngress(e, MaxRows)
    \/ \E sd \in SymbolData : Score(sd)

SpecIngress == Init /\ [][NextIngress]_vars

NextAspects ==
    \/ \E e \in AspectEvents : AppendAspect(e, MaxRows)
    \/ \E e \in RetrogradeEvents : AppendRetrograde(e, MaxRows)
    \/ \E sd \in SymbolData : Score(sd)

SpecAspects == Init /\ [][NextAspects]_vars

NextCycle ==
    \/ \E e \in LunarCycleEvents : AppendLunarCycle(e, MaxRows)
    \/ \E sd \in SymbolData : Score(sd)

SpecCycle == Init /\ [][NextCycle]_vars

\* ------------------------------------------------------ identify_sector

Categories == {"crypto", "forex", "rates-macro", "stress", "commodities",
               "equities", "indices"}

\* Pieces the symbols are put together from.
Fragments ==
    {<<"B","A","N","K">>, <<"b","a","n","k">>, <<"B","a","n","K">>,
     <<"B","A","N">>, <<"K">>,
     <<"A","I">>, <<"T","E","C","H">>, <<"N","I","K","E">>, <<"H","O","M","E">>}

InitSector ==
    /\ aspects = <<>> /\ ingresses = <<>> /\ lunar_phases = <<>>
    /\ retrogrades = <<>> /\ lunar_cycle = <<>>
    /\ current_date = ToDatetime(ScoreDay)
    /\ score_result = {}
    /\ symbol = <<>> /\ category \in Categories /\ sector = {}
    /\ longitude = 0 /\ turns = 0 /\ sign_result = {}
    /\ NoLevels /\ NoRun /\ NoGenerator

\* The caller builds the symbol it will ask about.
ExtendSymbol(f) ==
    /\ sector = {}
    /\ Len(symbol) + Len(f) <= MaxSymbolLen
    /\ symbol' = symbol \o f
    /\ UNCHANGED <<category, sector, logVars, scoreVars, signVars, levelVars, runVars, genVars>>

\* sector = identify_sector(symbol, category)
Classify ==
    /\ sector' = {identify_sector(symbol, category)}
    /\ UNCHANGED <<symbol, category, logVars, scoreVars, signVars, levelVars, runVars, genVars>>

NextSector ==
    \/ \E f \in Fragments : ExtendSymbol(f)
    \/ Classify

SpecSector == InitSector /\ [][NextSector]_vars

\* ------------------------------------------------------ get_zodiac_sign

FullTurn == 360 * LonScale

InitSign ==
    /\ aspects = <<>> /\ ingresses = <<>> /\ lunar_phases = <<>>
    /\ retrogrades = <<>> /\ lunar_cycle = <<>>
    /\ current_date = ToDatetime(ScoreDay)
    /\ score_result = {}
    /\ symbol = <<>> /\ category = "equities" /\ sector = {}
    /\ longitude \in 0..(FullTurn - 1)
    /\ turns \in (-MaxTurns)..MaxTurns
    /\ sign_result = {}
    /\ NoLevels /\ NoRun /\ NoGenerator

\* The sign of L and the sign of L + 360k.
GetSigns ==
    /\ sign_result' = {<<get_zodiac_sign(longitude).name,
                         get_zodiac_sign(longitude + FullTurn * turns).name>>}
    /\ UNCHANGED <<longitude, turns, logVars, scoreVars, sectorVars, levelVars, runVars, genVars>>

NextSign == GetSigns

SpecSign == InitSign /\ [][NextSign]_vars

\* ------------------------------------------- calculate_fibonacci_levels

\* The value of a cell of the price table, of `price` and of the returned
\* anchor price: None, not-a-number, or a float (a number of price units).
NoneValue == [kind |-> "None"]
NaN == [kind |-> "nan"]
Float(v) == [kind |-> "float", value |-> v]

\* row.get(key, default): the cell if the table has the column, else the default
RowGet(row, key, default) == IF key \in DOMAIN row THEN row[key] ELSE default

\* Mutant: the offsets are probed nearest first.
PROBE_OFFSETS_nearest_first == <<-1, 1, -2, 2, -3, 3>>

\* for offset in [-3, -2, -1, 1, 2, 3]
PROBE_OFFSETS == <<-3, -2, -1, 1, 2, 3>>

\* price_df[(price_df['date'] == d) & (price_df['symbol'] == sym)]
DateMatch(df, d, sym) == SelectSeq(df, LAMBDA r : r.date = d /\ r.symbol = sym)

\* The loop over the offsets, from the i-th on: the rows of the first nearby
\* date that has any, the empty selection if none has.
RECURSIVE ProbeOffsets(_, _, _, _)
ProbeOffsets(df, anchor_date, sym, i) ==
    IF i > Len(PROBE_OFFSETS) THEN <<>>
    ELSE LET date_match == DateMatch(df, anchor_date + PROBE_OFFSETS[i], sym)
         IN  IF date_match # <<>> THEN date_match
             ELSE ProbeOffsets(df, anchor_date, sym, i + 1)

get_anchor_price(df, anchor_date, anchor_type, sym) ==
    LET exact      == DateMatch(df, anchor_date, sym)
        date_match == IF exact = <<>> THEN ProbeOffsets(df, anchor_date, sym, 1)
                      ELSE exact
    IN  IF date_match = <<>> THEN NoneValue
        ELSE
          LET row   == date_match[1]
              price == IF anchor_type = "high"
                       THEN RowGet(row, "high", RowGet(row, "price", NoneValue))
                       ELSE RowGet(row, "low", RowGet(row, "price", NoneValue))
          IN  IF price # NoneValue /\ price # NaN THEN price ELSE NoneValue

\* A row of <category>_solstice_equinox.csv after load_price_data has renamed
\* its columns: date, symbol and price always, high and low if the feed has
\* them. The cells of day d hold 10d (price), 10d + 1 (high) and 10d - 1 (low),
\* so that a returned price tells the row and the column it was read from.
PriceRow(cols, d, sym, priceIsNaN, rangeIsNaN) ==
    [k \in {"date", "symbol", "price"} \cup cols |->
        CASE k = "date"   -> d
          [] k = "symbol" -> sym
          [] k = "price"  -> IF priceIsNaN THEN NaN ELSE Float(10 * d)
          [] k = "high"   -> IF rangeIsNaN THEN NaN ELSE Float(10 * d + 1)
          [] k = "low"    -> IF rangeIsNaN THEN NaN ELSE Float(10 * d - 1)]

SPY == <<"S", "P", "Y">>
QQQ == <<"Q", "Q", "Q">>
EURUSD == <<"E", "U", "R", "U", "S", "D">>
USDJPY == <<"U", "S", "D", "J", "P", "Y">>

\* The anchor date get_anchor_price is asked about (specification SpecAnchor).
ProbeDay == ScoreDay - AnchorGap

\* The rows specification SpecAnchor draws from: the symbol's rows of the days
\* around the anchor date, one day beyond the probed offsets included, and
\* another symbol's row of the anchor date itself.
ProbeRows ==
    {PriceRow(cols, ProbeDay + o, SPY, pn, rn) :
        cols \in SUBSET {"high", "low"}, o \in (-4)..4, pn \in BOOLEAN, rn \in BOOLEAN}
    \cup {PriceRow(cols, ProbeDay, QQQ, FALSE, FALSE) : cols \in SUBSET {"high", "low"}}

\* The price feed writes a table symbol by symbol, each symbol's rows by date,
\* every row with the table's columns.
AppendPriceRow(e, cap) ==
    /\ anchor_price = {} /\ all_results = {}
    /\ Len(price_df) < cap
    /\ price_df # <<>> =>
         /\ DOMAIN e = DOMAIN price_df[1]
         /\ \/ Last(price_df).symbol = e.symbol /\ Last(price_df).date < e.date
            \/ \A i \in 1..Len(price_df) : price_df[i].symbol # e.symbol
    /\ price_df' = Append(price_df, e)
    /\ UNCHANGED <<anchor_price, all_results, logVars, scoreVars, sectorVars,
                   signVars, runVars, genVars>>

\* anchor_price = get_anchor_price(price_df, anchor_date, anchor_type, symbol)
GetAnchorPrice(anchor_date, anchor_type, sym) ==
    /\ anchor_price' =
         {[date |-> anchor_date, anchor_type |-> anchor_type, symbol |-> sym,
           price |-> get_anchor_price(price_df, anchor_date, anchor_type, sym)]}
    /\ UNCHANGED <<price_df, all_results, logVars, scoreVars, sectorVars,
                   signVars, runVars, genVars>>

InitAnchor ==
    /\ aspects = <<>> /\ ingresses = <<>> /\ lunar_phases = <<>>
    /\ retrogrades = <<>> /\ lunar_cycle = <<>>
    /\ current_date = ToDatetime(ScoreDay)
    /\ score_result = {}
    /\ symbol = <<>> /\ category = "equities" /\ sector = {}
    /\ longitude = 0 /\ turns = 0 /\ sign_result = {}
    /\ NoLevels /\ NoRun /\ NoGenerator

NextAnchor ==
    \/ \E e \in ProbeRows : AppendPriceRow(e, MaxPriceRows)
    \/ \E ty \in {"high", "low"} : GetAnchorPrice(ProbeDay, ty, SPY)

SpecAnchor == InitAnchor /\ [][NextAnchor]_vars

\* Years of anchors process_symbol looks back.
ANALYSIS_YEARS == 6

\* RETRACEMENT_LEVELS, in thousandths.
RETRACEMENT_LEVELS == <<236, 382, 500, 618, 786, 1000, 1272, 1618>>

Digit(n) == <<"0", "1", "2", "3", "4", "5", "6", "7", "8", "9">>[n + 1]

\* f'{level:.3f}' for a level of less than 10.
FormatLevel(level) ==
    <<Digit(level \div 1000), ".", Digit((level \div 100) % 10),
      Digit((level \div 10) % 10), Digit(level % 10)>>

\* Mutant: the levels are measured down from the high.
calculate_fibonacci_retracement_from_high(high, low) ==
    LET diff == high - low
    IN  [key \in {FormatLevel(RETRACEMENT_LEVELS[i]) : i \in 1..Len(RETRACEMENT_LEVELS)} |->
           LET level == RETRACEMENT_LEVELS[
                          CHOOSE i \in 1..Len(RETRACEMENT_LEVELS) :
                            FormatLevel(RETRACEMENT_LEVELS[i]) = key]
           IN  high * 1000 - diff * level]

\* The dict of the levels, keyed by the formatted ratio; a level is a number of
\* thousandths of a price unit.
calculate_fibonacci_retracement(high, low) ==
    LET diff == high - low
    IN  [key \in {FormatLevel(RETRACEMENT_LEVELS[i]) : i \in 1..Len(RETRACEMENT_LEVELS)} |->
           LET level == RETRACEMENT_LEVELS[
                          CHOOSE i \in 1..Len(RETRACEMENT_LEVELS) :
                            FormatLevel(RETRACEMENT_LEVELS[i]) = key]
           IN  IF level <= 1000 THEN low * 1000 + diff * level
               ELSE high * 1000 + diff * (level - 1000)]

\* A row of seasonal_anchors.csv; event is the index of the season (0 vernal
\* equinox, 1 summer solstice, 2 autumn equinox, 3 winter solstice).
SeasonalPoint(day, event) ==
    [date |-> day,
     type |-> <<"vernal_equinox", "summer_solstice",
                "autumn_equinox", "winter_solstice">>[event + 1],
     sign |-> <<"Aries", "Cancer", "Libra", "Capricorn">>[event + 1],
     fibonacci_anchor |-> TRUE,
     anchor_type |-> IF event \in {1, 3} THEN "high" ELSE "low"]

\* .sort_values('date')
RECURSIVE SortByDate(_)
SortByDate(s) ==
    IF s = <<>> THEN <<>>
    ELSE LET rest == SortByDate(SubSeq(s, 1, Len(s) - 1))
             x    == s[Len(s)]
             k    == Cardinality({i \in 1..Len(rest) : rest[i].date <= x.date})
         IN  SubSeq(rest, 1, k) \o <<x>> \o SubSeq(rest, k + 1, Len(rest))

Max2(a, b) == IF a >= b THEN a ELSE b
Min2(a, b) == IF a <= b THEN a ELSE b

\* The loop over the anchors: the anchors that get a price, in order.
ResolveAnchors(symbol_df, recent_anchors, sym) ==
    LET priced ==
          SelectSeq(recent_anchors,
                    LAMBDA a : get_anchor_price(symbol_df, a.date, a.anchor_type, sym)
                               # NoneValue)
    IN  [i \in 1..Len(priced) |->
           [date        |-> StrfDate(ToDatetime(priced[i].date)),
            type        |-> priced[i].type,
            anchor_type |-> priced[i].anchor_type,
            price       |-> get_anchor_price(symbol_df, priced[i].date,
                                             priced[i].anchor_type, sym).value,
            sign        |-> priced[i].sign]]

\* f"{anchor1['date']}_to_{anchor2['date']}"
LevelKey(anchor1, anchor2) == <<anchor1.date, anchor2.date>>

\* for time_ratio in [1.0, 1.272, 1.618, 2.618], in thousandths
TIME_RATIOS == <<1000, 1272, 1618, 2618>>

\* The (level, ratio) pairs in the order of the two loops.
ProjectionKeys ==
    [k \in 1..(Len(RETRACEMENT_LEVELS) * Len(TIME_RATIOS)) |->
        [level_name |-> FormatLevel(RETRACEMENT_LEVELS[((k - 1) \div Len(TIME_RATIOS)) + 1]),
         time_ratio |-> TIME_RATIOS[((k - 1) % Len(TIME_RATIOS)) + 1]]]

\* Mutant: a projection dated at the instant of the run is kept.
IsFuture_or_now(projected_date, now) == ToDatetime(projected_date) >= now

\* if projected_date > datetime.now()
IsFuture(projected_date, now) == ToDatetime(projected_date) > now

\* calculate_time_projections: the values of the dict it returns, in the
\* order of insertion; dates are day numbers.
calculate_time_projections(start_date, end_date, target_levels, now) ==
    LET time_span == end_date - start_date
        projected_days(key) == IntDiv(time_span * key.time_ratio, 1000)
        kept == SelectSeq(ProjectionKeys,
                          LAMBDA key : IsFuture(end_date + projected_days(key), now))
    IN  [k \in 1..Len(kept) |->
           [target_price     |-> target_levels[kept[k].level_name],
            target_date      |-> end_date + projected_days(kept[k]),
            time_ratio       |-> kept[k].time_ratio,
            days_from_anchor |-> projected_days(kept[k])]]

\* result['projections']: the projections of the pairs from pair i on, each
\* with the key of its pair.
RECURSIVE Projections(_, _, _)
Projections(anchors_list, i, now) ==
    IF i >= Len(anchors_list) THEN <<>>
    ELSE LET anchor1 == anchors_list[i]
             anchor2 == anchors_list[i + 1]
             high    == Max2(anchor1.price, anchor2.price)
             low     == Min2(anchor1.price, anchor2.price)
             projections ==
                 calculate_time_projections(anchor1.date, anchor2.date,
                                            calculate_fibonacci_retracement(high, low),
                                            now)
         IN  [k \in 1..Len(projections) |->
                [target_price     |-> projections[k].target_price,
                 target_date      |-> projections[k].target_date,
                 time_ratio       |-> projections[k].time_ratio,
                 days_from_anchor |-> projections[k].days_from_anchor,
                 anchor_pair      |-> LevelKey(anchor1, anchor2)]]
             \o Projections(anchors_list, i + 1, now)

\* The body of the loop over the consecutive pairs: the value stored under the
\* pair's key.
LevelSet(anchor1, anchor2) ==
    LET price1 == anchor1.price
        price2 == anchor2.price
        high   == Max2(price1, price2)
        low    == Min2(price1, price2)
    IN  [from_anchor    |-> anchor1,
         to_anchor      |-> anchor2,
         high           |-> high,
         low            |-> low,
         retracements   |-> calculate_fibonacci_retracement(high, low),
         current_range  |-> high - low,
         time_span_days |-> anchor2.date - anchor1.date]

\* result['fibonacci_levels']: a later pair with the key of an earlier one
\* replaces its entry.
FibonacciLevels(anchors_list) ==
    LET pairs == 1..(Len(anchors_list) - 1)
        keys  == {LevelKey(anchors_list[i], anchors_list[i + 1]) : i \in pairs}
    IN  [key \in keys |->
           LET i == CHOOSE i \in pairs :
                      /\ LevelKey(anchors_list[i], anchors_list[i + 1]) = key
                      /\ \A j \in pairs :
                           LevelKey(anchors_list[j], anchors_list[j + 1]) = key => j <= i
           IN  LevelSet(anchors_list[i], anchors_list[i + 1])]

\* Mutant: one resolved anchor is enough for a symbol to be kept.
process_symbol_one_anchor(sym, df, anchors_df, cat, now) ==
    LET recent_date    == now - Days(365 * ANALYSIS_YEARS)
        recent_anchors ==
          SortByDate(SelectSeq(anchors_df, LAMBDA a : ToDatetime(a.date) >= recent_date))
        symbol_df      == SelectSeq(df, LAMBDA r : r.symbol = sym)
    IN  IF recent_anchors = <<>> THEN NoneValue
        ELSE IF symbol_df = <<>> THEN NoneValue
        ELSE LET anchors_list == ResolveAnchors(symbol_df, recent_anchors, sym)
             IN  IF Len(anchors_list) < 1 THEN NoneValue
                 ELSE [symbol           |-> sym,
                       category         |-> cat,
                       anchors          |-> anchors_list,
                       fibonacci_levels |-> FibonacciLevels(anchors_list),
                       projections      |-> Projections(anchors_list, 1, now)]

process_symbol(sym, df, anchors_df, cat, now) ==
    LET recent_date    == now - Days(365 * ANALYSIS_YEARS)
        recent_anchors ==
          SortByDate(SelectSeq(anchors_df, LAMBDA a : ToDatetime(a.date) >= recent_date))
        symbol_df      == SelectSeq(df, LAMBDA r : r.symbol = sym)
    IN  IF recent_anchors = <<>> THEN NoneValue
        ELSE IF symbol_df = <<>> THEN NoneValue
        ELSE LET anchors_list == ResolveAnchors(symbol_df, recent_anchors, sym)
             IN  IF Len(anchors_list) < 2 THEN NoneValue
                 ELSE [symbol           |-> sym,
                       category         |-> cat,
                       anchors          |-> anchors_list,
                       fibonacci_levels |-> FibonacciLevels(anchors_list),
                       projections      |-> Projections(anchors_list, 1, now)]

\* price_df['symbol'].unique(): the symbols in the order of their first rows
RECURSIVE UniqueSymbols(_)
UniqueSymbols(df) ==
    IF df = <<>> THEN <<>>
    ELSE LET u   == UniqueSymbols(SubSeq(df, 1, Len(df) - 1))
             sym == df[Len(df)].symbol
         IN  IF \E i \in 1..Len(u) : u[i] = sym THEN u ELSE Append(u, sym)

\* seasonal_anchors.csv: four consecutive seasonal points, the oldest on the
\* day that starts the trailing window of a run made on ScoreDay.
anchors_df ==
    <<SeasonalPoint(ScoreDay - 365 * ANALYSIS_YEARS, 3),
      SeasonalPoint(ScoreDay - 3 * AnchorGap, 0),
      SeasonalPoint(ScoreDay - 2 * AnchorGap, 1),
      SeasonalPoint(ScoreDay - AnchorGap, 2)>>

\* The rows specification SpecLevels draws from, of a table with no high and
\* low columns: the symbol's rows of the anchor dates and of the day after the
\* third anchor, and another symbol's rows of the last two anchor dates.
LevelRows ==
    {[date |-> d, symbol |-> EURUSD, price |-> c] :
        d \in {anchors_df[i].date : i \in 1..Len(anchors_df)} \cup {anchors_df[3].date + 1},
        c \in {Float(50), Float(100), NaN}}
    \cup {[date |-> anchors_df[i].date, symbol |-> USDJPY, price |-> Float(100)] :
            i \in {3, 4}}

\* main, for the category whose table is price_df: the results of the symbols
\* that have one.
CalculateLevels(cat) ==
    /\ all_results = {}
    /\ LET symbols   == UniqueSymbols(price_df)
           processed == [i \in 1..Len(symbols) |->
                           process_symbol(symbols[i], price_df, anchors_df,
                                          cat, current_date)]
           kept      == SelectSeq(processed, LAMBDA r : r # NoneValue /\ r.anchors # <<>>)
       IN  /\ all_results' = {kept}
           /\ fibonacci_data' = kept          \* json.dump(all_results, f)
    /\ UNCHANGED <<price_df, anchor_price, astro_files, all_scores,
                   featured_symbols, scoring_exit, logVars, scoreVars,
                   sectorVars, signVars, genVars>>

InitLevels ==
    /\ aspects = <<>> /\ ingresses = <<>> /\ lunar_phases = <<>>
    /\ retrogrades = <<>> /\ lunar_cycle = <<>>
    /\ current_date \in Instants
    /\ score_result = {}
    /\ symbol = <<>> /\ category = "equities" /\ sector = {}
    /\ longitude = 0 /\ turns = 0 /\ sign_result = {}
    /\ NoLevels /\ NoRun /\ NoGenerator

NextLevels ==
    \/ \E e \in LevelRows : AppendPriceRow(e, MaxLevelRows)
    \/ CalculateLevels("forex")

SpecLevels == InitLevels /\ [][NextLevels]_vars

\* ------------------------------------------------- the scorer's main

\* Mutant: a record goes before the records of the same total.
InsertByTotal_before_equal(sorted, x) ==
    LET k == Cardinality({i \in 1..Len(sorted) : sorted[i].total_score > x.total_score})
    IN  SubSeq(sorted, 1, k) \o <<x>> \o SubSeq(sorted, k + 1, Len(sorted))

\* One step of the stable sort: x goes after the records whose total is not
\* lower than its own.
InsertByTotal(sorted, x) ==
    LET k == Cardinality({i \in 1..Len(sorted) : sorted[i].total_score >= x.total_score})
    IN  SubSeq(sorted, 1, k) \o <<x>> \o SubSeq(sorted, k + 1, Len(sorted))

\* all_scores.sort(key=lambda x: x['total_score'], reverse=True)
RECURSIVE SortByTotalDescending(_)
SortByTotalDescending(s) ==
    IF s = <<>> THEN <<>>
    ELSE InsertByTotal(SortByTotalDescending(SubSeq(s, 1, Len(s) - 1)), s[Len(s)])

\* Mutant: the favorable records are featured too.
FeaturedOf_favorable(scored) ==
    SelectSeq(scored, LAMBDA r : r.rating \in {"featured", "favorable"})

\* if score_result['is_featured']: featured_symbols.append(score_result)
FeaturedOf(scored) == SelectSeq(scored, LAMBDA r : r.is_featured)

\* The entries of the level data a run is made on (the scorer reads their
\* symbol and category only).
RunSymbolData == SymbolData \cup {[symbol |-> SPY, category |-> "equities"]}

\* The level calculator saves one more result: all_results.append(result)
AppendSymbolData(sd, cap) ==
    /\ score_result = {}
    /\ Len(fibonacci_data) < cap
    /\ \A i \in 1..Len(fibonacci_data) : fibonacci_data[i] # sd
    /\ fibonacci_data' = Append(fibonacci_data, sd)
    /\ UNCHANGED <<astro_files, all_scores, featured_symbols, scoring_exit,
                   logVars, scoreVars, sectorVars, signVars, levelVars, genVars>>

\* An event file is missing from ASTRO_DIR when the scorer runs.
RemoveFile(key) ==
    /\ score_result = {}
    /\ key \in astro_files
    /\ astro_files' = astro_files \ {key}
    /\ UNCHANGED <<fibonacci_data, all_scores, featured_symbols, scoring_exit,
                   logVars, scoreVars, sectorVars, signVars, levelVars, genVars>>

\* Mutant: the run goes on without level data and writes its (empty) output.
ScoringRun_without_guard ==
    /\ scoring_exit = "idle"
    /\ score_result = {}
    /\ LET scored == [i \in 1..Len(fibonacci_data) |->
                        calculate_confidence_score(fibonacci_data[i], AstroData,
                                                   current_date)]
       IN  /\ score_result' = IF scored = <<>> THEN {} ELSE {scored[Len(scored)]}
           /\ featured_symbols' = FeaturedOf(scored)
           /\ all_scores' = SortByTotalDescending(scored)
           /\ scoring_exit' = "complete"
    /\ UNCHANGED <<astro_files, fibonacci_data, logVars, current_date,
                   sectorVars, signVars, levelVars, genVars>>

\* main: with no level data the run stops before it scores or writes anything;
\* else every entry is scored, the featured records are collected in the order
\* of the entries, and the records are sorted and saved.
ScoringRun ==
    /\ scoring_exit = "idle"
    /\ score_result = {}
    /\ IF fibonacci_data = <<>>
       THEN /\ scoring_exit' = "no_data"
            /\ UNCHANGED <<score_result, featured_symbols, all_scores>>
       ELSE LET scored == [i \in 1..Len(fibonacci_data) |->
                             calculate_confidence_score(fibonacci_data[i], AstroData,
                                                        current_date)]
            IN  /\ score_result' = {scored[Len(scored)]}
                /\ featured_symbols' = FeaturedOf(scored)
                /\ all_scores' = SortByTotalDescending(scored)
                /\ scoring_exit' = "complete"
    /\ UNCHANGED <<astro_files, fibonacci_data, logVars, current_date,
                   sectorVars, signVars, levelVars, genVars>>

\* The rows specifications SpecRun and SpecAbsent draw from.
RunIngressEvents    == {IngressRow(ScoreDay, "Sun", 11, 10)}
RunAspectEvents     == {PrimaryAspectRow(ScoreDay, "Mercury", "Mars", "trine", FALSE)}
RunRetrogradeEvents == {RetrogradeRow(ScoreDay, "Mercury", TRUE, FALSE)}
RunLunarPhaseEvents == {LunarPhaseRow(ScoreDay, "new")}
RunLunarCycleEvents == {LunarCycleRow(ScoreDay, "opposition", TRUE)}

AppendRunEvent(cap) ==
    \/ \E e \in RunAspectEvents : AppendAspect(e, cap)
    \/ \E e \in RunIngressEvents : AppendIngress(e, cap)
    \/ \E e \in RunRetrogradeEvents : AppendRetrograde(e, cap)
    \/ \E e \in RunLunarPhaseEvents : AppendLunarPhase(e, cap)
    \/ \E e \in RunLunarCycleEvents : AppendLunarCycle(e, cap)

NextRun ==
    \/ AppendRunEvent(MaxEvents)
    \/ \E sd \in RunSymbolData : AppendSymbolData(sd, MaxSymbols)
    \/ ScoringRun

SpecRun == Init /\ [][NextRun]_vars

\* A run on the level data of one symbol, with any of the event files missing.
InitAbsent ==
    /\ aspects = <<>> /\ ingresses = <<>> /\ lunar_phases = <<>>
    /\ retrogrades = <<>> /\ lunar_cycle = <<>>
    /\ current_date \in Instants
    /\ score_result = {}
    /\ symbol = <<>> /\ category = "equities" /\ sector = {}
    /\ longitude = 0 /\ turns = 0 /\ sign_result = {}
    /\ NoLevels
    /\ astro_files = ASTRO_FILES
    /\ fibonacci_data \in {<<sd>> : sd \in SymbolData}
    /\ all_scores = <<>> /\ featured_symbols = <<>> /\ scoring_exit = "idle"
    /\ NoGenerator

NextAbsent ==
    \/ AppendRunEvent(MaxEvents + 1)
    \/ \E key \in ASTRO_FILES : RemoveFile(key)
    \/ ScoringRun

SpecAbsent == InitAbsent /\ [][NextAbsent]_vars

\* ------------------------------------- fetch_astro_data.py: the daily loop
\* A position is what swe.calc_ut returns for a body and a day: a longitude in
\* [0, 360) and a speed, here in 1/RawUnit degree (per day); the generator
\* keeps both rounded to 4 decimals, in 1/LonUnit degree.  Dates of the
\* generator are day numbers counted from 2000-01-01.

LonUnit == 10000
RawUnit == 10 * LonUnit

\* START_DATE = datetime(2004, 12, 21), in days from 2000-01-01
START_DATE == 1816

\* cycle_length = 6793.5 days, in half days
CYCLE_HALF_DAYS == 13587

Bodies == {PRIMARY_PLANETS[i] : i \in 1..Len(PRIMARY_PLANETS)}
          \cup {OUTER_PLANETS[i] : i \in 1..Len(OUTER_PLANETS)}

\* round(n / d, k) of a non-negative quotient n / d, in units of the last kept
\* digit: to the nearest, ties to even.
RoundDiv(n, d) ==
    LET q == n \div d
        r == n % d
    IN  IF 2 * r < d THEN q
        ELSE IF 2 * r > d THEN q + 1
        ELSE IF q % 2 = 0 THEN q ELSE q + 1

\* round(x, 4) of a raw value, sign kept.
Round4(raw) ==
    IF raw >= 0 THEN RoundDiv(raw, RawUnit \div LonUnit)
    ELSE -RoundDiv(-raw, RawUnit \div LonUnit)

\* get_zodiac_sign on the unrounded longitude.
RawSign(raw) == get_zodiac_sign(IntDiv(raw * LonScale, RawUnit))

\* get_planet_position: the record of one body.
get_planet_position(raw) ==
    [longitude  |-> Round4(raw.longitude),
     retrograde |-> raw.speed < 0,
     stationary |-> 100 * Abs(raw.speed) < RawUnit,    \* abs(speed) < 0.01
     speed      |-> Round4(raw.speed),
     sign       |-> RawSign(raw.longitude)]

\* compute_daily_positions for the bodies main reads: the primary bodies, and
\* the outer bodies with their influence weight.  (The chart points and the
\* angles are computed too, but no loop of main reads them.)
compute_daily_positions(ephemeris) ==
    [b \in Bodies |->
        LET pos == get_planet_position(ephemeris[b])
        IN  IF BodyIndex(b) <= Len(PRIMARY_PLANETS) THEN pos
            ELSE [longitude  |-> pos.longitude,
                  retrograde |-> pos.retrograde,
                  stationary |-> pos.stationary,
                  speed      |-> pos.speed,
                  sign       |-> pos.sign,
                  influence_weight |-> OuterInfluence(b),
                  bonus_eligible   |-> pos.stationary]]

\* 'exact': orb_diff < 1
ExactOf(orb_diff) == orb_diff < LonUnit

\* The loop of check_aspect over a table of aspect definitions: the first
\* entry whose window holds the folded separation, else None.  The orb of the
\* result is round(orb_diff, 2), in hundredths of a degree.
RECURSIVE FirstAspect(_, _, _)
FirstAspect(table, diff, i) ==
    IF i > Len(table) THEN NoneValue
    ELSE LET orb_diff == Abs(diff - table[i].degrees * LonUnit)
         IN  IF orb_diff <= table[i].orb * LonUnit
             THEN [type   |-> table[i].name,
                   nature |-> table[i].nature,
                   orb    |-> RoundDiv(orb_diff, LonUnit \div 100),
                   exact  |-> ExactOf(orb_diff)]
             ELSE FirstAspect(table, diff, i + 1)

\* diff = abs(lon1 - lon2); if diff > 180: diff = 360 - diff
FoldedSeparation(lon1, lon2) ==
    LET diff == Abs(lon1 - lon2)
    IN  IF diff > 180 * LonUnit THEN 360 * LonUnit - diff ELSE diff

check_aspect(lon1, lon2) == FirstAspect(ASPECTS, FoldedSeparation(lon1, lon2), 1)

\* for i, body1 in enumerate(bodies): for body2 in bodies[i+1:]
PrimaryPairs ==
    LET n == Len(PRIMARY_PLANETS)
        all == [k \in 1..(n * n) |->
                  <<PRIMARY_PLANETS[((k - 1) \div n) + 1], PRIMARY_PLANETS[((k - 1) % n) + 1]>>]
    IN  SelectSeq(all, LAMBDA p : BodyIndex(p[1]) < BodyIndex(p[2]))

\* for outer in outer_bodies: for primary in PRIMARY_PLANETS.keys()
BonusPairs ==
    LET n == Len(PRIMARY_PLANETS)
    IN  [k \in 1..(Len(OUTER_PLANETS) * n) |->
            <<OUTER_PLANETS[((k - 1) \div n) + 1], PRIMARY_PLANETS[((k - 1) % n) + 1]>>]

AspectOfPair(positions, p) ==
    check_aspect(positions[p[1]].longitude, positions[p[2]].longitude)

\* generate_aspects(positions, date, primary_only=True): aspects + bonus_aspects
generate_aspects(positions, date) ==
    LET primary(p) ==
            LET aspect == AspectOfPair(positions, p)
            IN  [date |-> date, body1 |-> p[1], body2 |-> p[2],
                 aspect_type |-> aspect.type, aspect_nature |-> aspect.nature,
                 orb |-> aspect.orb, exact |-> aspect.exact,
                 body1_sign |-> positions[p[1]].sign.name,
                 body2_sign |-> positions[p[2]].sign.name,
                 primary_scoring |-> TRUE]
        bonus(p) ==
            LET aspect == AspectOfPair(positions, p)
            IN  [date |-> date, body1 |-> p[1], body2 |-> p[2],
                 aspect_type |-> aspect.type, aspect_nature |-> aspect.nature,
                 orb |-> aspect.orb, exact |-> TRUE,
                 body1_sign |-> positions[p[1]].sign.name,
                 body2_sign |-> positions[p[2]].sign.name,
                 primary_scoring |-> FALSE,
                 bonus_eligible |-> TRUE,
                 influence_weight |-> positions[p[1]].influence_weight]
        isAspect(p) == AspectOfPair(positions, p) # NoneValue
        isExact(p) == isAspect(p) /\ AspectOfPair(positions, p).exact
        aspects_ == SelectSeq(PrimaryPairs, isAspect)
        bonus_aspects == SelectSeq(BonusPairs, isExact)
    IN  [i \in 1..Len(aspects_) |-> primary(aspects_[i])]
        \o [i \in 1..Len(bonus_aspects) |-> bonus(bonus_aspects[i])]

\* Mutant: an ingress is recorded for every body, changed sign or not.
SignChanged_always(curr_sign, prev_sign) == TRUE

\* if curr_sign != prev_sign
SignChanged(curr_sign, prev_sign) == curr_sign # prev_sign

\* detect_ingresses(current_positions, previous_positions, date)
detect_ingresses(current_positions, previous_positions_, date) ==
    LET changed(body) == SignChanged(current_positions[body].sign.name,
                                     previous_positions_[body].sign.name)
        entry(body) ==
            [date |-> date, body |-> body,
             sign |-> current_positions[body].sign.name,
             from_sign |-> previous_positions_[body].sign.name,
             ruler |-> current_positions[body].sign.ruler,
             element |-> current_positions[body].sign.element]
        bodies == SelectSeq(PRIMARY_PLANETS, changed)
    IN  [i \in 1..Len(bodies) |-> entry(bodies[i])]

\* list(all_bodies.keys())[2:]: the bodies after Sun and Moon
RetrogradeBodies ==
    SubSeq(PRIMARY_PLANETS, 3, Len(PRIMARY_PLANETS)) \o OUTER_PLANETS

\* Mutant: the first day records a station for every body that is retrograde.
StationSeen_first_day(previous, body, is_rx) ==
    IF body \in DOMAIN previous THEN previous[body] # is_rx ELSE is_rx

\* if body in previous_retrogrades and previous_retrogrades[body] != is_rx
StationSeen(previous, body, is_rx) ==
    body \in DOMAIN previous /\ previous[body] # is_rx

\* The retrograde loop of main: the entries it appends on one day.
RetrogradeEntries(positions, previous, date) ==
    LET seen(body) == StationSeen(previous, body, positions[body].retrograde)
        entry(body) ==
            LET is_rx == positions[body].retrograde
                is_stationary == positions[body].stationary
            IN  IF BodyIndex(body) > Len(PRIMARY_PLANETS)
                THEN [date |-> date, body |-> body,
                      status |-> IF is_rx THEN "starts" ELSE "ends",
                      sign |-> positions[body].sign.name,
                      stationary |-> is_stationary,
                      primary_scoring |-> FALSE,
                      bonus_eligible |-> is_stationary,
                      influence_weight |-> OuterInfluence(body)]
                ELSE [date |-> date, body |-> body,
                      status |-> IF is_rx THEN "starts" ELSE "ends",
                      sign |-> positions[body].sign.name,
                      stationary |-> is_stationary,
                      primary_scoring |-> TRUE]
        bodies == SelectSeq(RetrogradeBodies, seen)
    IN  [i \in 1..Len(bodies) |-> entry(bodies[i])]

\* Mutant: the flags of the first day are kept.
RetrogradeFlags_first_day(positions) ==
    IF previous_retrogrades # <<>> THEN previous_retrogrades
    ELSE [body \in {RetrogradeBodies[i] : i \in 1..Len(RetrogradeBodies)} |->
            positions[body].retrograde]

\* previous_retrogrades[body] = is_rx, for every body of the loop
RetrogradeFlags(positions) ==
    [body \in {RetrogradeBodies[i] : i \in 1..Len(RetrogradeBodies)} |->
        positions[body].retrograde]

\* calculate_lunar_phase: thresholds in tenths of a degree
LUNAR_PHASES == <<
    <<225,  "new">>,           <<675,  "waxing_crescent">>,
    <<1125, "first_quarter">>, <<1575, "waxing_gibbous">>,
    <<2025, "full">>,          <<2475, "waning_gibbous">>,
    <<2925, "last_quarter">>,  <<3375, "waning_crescent">>,
    <<3600, "new">> >>

\* angle = normalize_angle(moon_lon - sun_lon); the first threshold above it
calculate_lunar_phase(sun_lon, moon_lon) ==
    LET angle == (moon_lon - sun_lon) % (360 * LonUnit)
        below == {i \in 1..Len(LUNAR_PHASES) : 10 * angle < LUNAR_PHASES[i][1] * LonUnit}
    IN  IF below = {} THEN "new" ELSE LUNAR_PHASES[Min(below)][2]

\* cycle_phases of calculate_lunar_cycle_phase: degree, phase_name, orb
CYCLE_PHASES == <<
    [degree |-> 0,   phase |-> "start",             orb |-> 2],
    [degree |-> 90,  phase |-> "first_quadrature",  orb |-> 2],
    [degree |-> 137, phase |-> "fibonacci_38",      orb |-> 3],
    [degree |-> 180, phase |-> "opposition",        orb |-> 1],
    [degree |-> 223, phase |-> "fibonacci_61",      orb |-> 3],
    [degree |-> 270, phase |-> "second_quadrature", orb |-> 2],
    [degree |-> 360, phase |-> "completion",        orb |-> 1] >>

\* days_since_j2000 % cycle_length, in half days
CycleHalfDays(date) == (2 * date) % CYCLE_HALF_DAYS

\* abs(cycle_position - degree), in 1/CYCLE_HALF_DAYS degree:
\* cycle_position = half days / CYCLE_HALF_DAYS * 360
CycleDiff(date, degree) == Abs(360 * CycleHalfDays(date) - degree * CYCLE_HALF_DAYS)

\* Mutant: an entry matches up to twice its tolerance.
KeyPhaseIndex_wide(table, date) ==
    LET within == {i \in 1..Len(table) :
                      CycleDiff(date, table[i].degree) < 2 * table[i].orb * CYCLE_HALF_DAYS}
    IN  IF within = {} THEN 0 ELSE Min(within)

\* for degree, phase_name, description, orb in cycle_phases: if diff < orb: ... break
\* The index of the entry the loop stops at, 0 when it runs to its end.
KeyPhaseIndex(table, date) ==
    LET within == {i \in 1..Len(table) :
                      CycleDiff(date, table[i].degree) < table[i].orb * CYCLE_HALF_DAYS}
    IN  IF within = {} THEN 0 ELSE Min(within)

\* The record the key-phase loop leaves for a table of key phases.
KeyPhase(table, date) ==
    LET i == KeyPhaseIndex(table, date)
    IN  IF i = 0
        THEN [phase_info |-> NoneValue, bonus_eligible |-> FALSE]
        ELSE LET diff == CycleDiff(date, table[i].degree)
             IN  [phase_info |-> [phase |-> table[i].phase,
                                  orb |-> RoundDiv(100 * diff, CYCLE_HALF_DAYS),
                                  at_key_point |-> TRUE],
                  bonus_eligible |-> /\ diff < 2 * CYCLE_HALF_DAYS
                                     /\ table[i].phase \in {"opposition", "completion", "start"}]

\* calculate_lunar_cycle_phase(date); cycle_position and node_longitude are
\* rounded to 2 decimals, in hundredths of a degree.
calculate_lunar_cycle_phase(date) ==
    LET found == KeyPhase(CYCLE_PHASES, date)
    IN  [cycle_position |-> RoundDiv(36000 * CycleHalfDays(date), CYCLE_HALF_DAYS),
         \* normalize_angle(125.04 - 0.052954 * days), from millionths
         node_longitude |-> RoundDiv((125040000 - 52954 * date) % 360000000, 10000),
         key_phase |-> found.phase_info,
         bonus_eligible |-> found.bonus_eligible,
         cycle_days_elapsed |-> CycleHalfDays(date) \div 2]

\* Mutant: the positions of the first day are kept.
RememberPositions_first_day(positions) ==
    IF previous_positions # {} THEN previous_positions ELSE {positions}

\* previous_positions = positions
RememberPositions(positions) == {positions}

\* One pass of the while loop of main, on the ephemeris of current_date; the
\* loop ends with END_DATE, here after cap days.
ProcessDay(ephemeris, cap) ==
    /\ day_count < cap
    /\ LET positions == compute_daily_positions(ephemeris)
           date == generator_date
           lunar_cycle_ == calculate_lunar_cycle_phase(date)
       IN  /\ aspects' = aspects \o generate_aspects(positions, date)
           /\ ingresses' =
                IF previous_positions # {}
                THEN ingresses \o detect_ingresses(positions,
                                    CHOOSE p \in previous_positions : TRUE, date)
                ELSE ingresses
           /\ retrogrades' =
                retrogrades \o RetrogradeEntries(positions, previous_retrogrades, date)
           /\ previous_retrogrades' = RetrogradeFlags(positions)
           /\ lunar_phases' =
                Append(lunar_phases,
                       [date |-> date,
                        phase |-> calculate_lunar_phase(positions["Sun"].longitude,
                                                        positions["Moon"].longitude),
                        sign |-> positions["Moon"].sign.name,
                        ruler |-> positions["Moon"].sign.ruler])
           /\ lunar_cycle' =
                IF lunar_cycle_.key_phase # NoneValue
                THEN Append(lunar_cycle,
                            [date |-> date,
                             cycle_position |-> lunar_cycle_.cycle_position,
                             node_longitude |-> lunar_cycle_.node_longitude,
                             key_phase |-> lunar_cycle_.key_phase,
                             bonus_eligible |-> lunar_cycle_.bonus_eligible,
                             cycle_days_elapsed |-> lunar_cycle_.cycle_days_elapsed])
                ELSE lunar_cycle
           /\ previous_positions' = RememberPositions(positions)
    /\ day_count' = day_count + 1
    /\ generator_date' = generator_date + 1
    /\ UNCHANGED <<scoreVars, sectorVars, signVars, levelVars, runVars>>

\* The generator at the top of its loop, started on one of the days of dates.
InitGenerator(dates) ==
    /\ aspects = <<>> /\ ingresses = <<>> /\ lunar_phases = <<>>
    /\ retrogrades = <<>> /\ lunar_cycle = <<>>
    /\ current_date = ToDatetime(ScoreDay)
    /\ score_result = {}
    /\ symbol = <<>> /\ category = "equities" /\ sector = {}
    /\ longitude = 0 /\ turns = 0 /\ sign_result = {}
    /\ NoLevels /\ NoRun
    /\ generator_date \in dates /\ day_count = 0
    /\ previous_positions = {} /\ previous_retrogrades = <<>>

\* --------------------------------------------- ephemerides of the runs

Deg(d) == d * RawUnit

\* A day on which no two primary bodies are in aspect, no outer body is in
\* exact aspect with a primary body, and every body is direct.
BaseEphemeris ==
    [b \in Bodies |->
        [longitude |-> Deg(CASE b = "Sun"     -> 29
                             [] b = "Moon"    -> 241
                             [] b = "Mercury" -> 79
                             [] b = "Venus"   -> 161
                             [] b = "Mars"    -> 289
                             [] b = "Jupiter" -> 96
                             [] b = "Saturn"  -> 134
                             [] b = "Uranus"  -> 235
                             [] b = "Neptune" -> 154
                             [] b = "Pluto"   -> 106),
         speed |-> RawUnit]]

\* Days on which Sun is on either side of 30 degrees and Moon on either side
\* of 240 degrees (239.99996 is kept as 240.0000 and is still in Scorpio).
SignEphemerides ==
    {[BaseEphemeris EXCEPT !["Sun"].longitude = s, !["Moon"].longitude = m] :
        s \in {Deg(29), Deg(31)}, m \in {Deg(240) - 4, Deg(241)}}

\* Days on which Mercury is direct or retrograde and Uranus is direct,
\* retrograde or retrograde and stationary; and a day whose Moon speed is
\* negative.
StationEphemerides ==
    {[BaseEphemeris EXCEPT !["Mercury"].speed = m, !["Uranus"].speed = u] :
        m \in {RawUnit, -(RawUnit \div 2)},
        u \in {RawUnit \div 20, -(RawUnit \div 200), -(RawUnit \div 20)}}
    \cup {[BaseEphemeris EXCEPT !["Moon"].speed = -RawUnit]}

\* Days on which Mercury is 60.9949, 60.9951 or 61.0049 degrees from Mars, and
\* Uranus is or is not 90.9951 degrees from Venus.
OrbEphemerides ==
    {[BaseEphemeris EXCEPT !["Mercury"].longitude = m, !["Uranus"].longitude = u] :
        m \in {Deg(349) + 99490, Deg(349) + 99510, Deg(349) + 100490},
        u \in {Deg(235), Deg(251) + 99510}}

\* The day of a run on which Moon is 1/LonScale degree per day ahead of where
\* it was, from the Sun's longitude on the day of the epoch.
SweepEphemeris(date) ==
    [BaseEphemeris EXCEPT
        !["Moon"].longitude =
            (Deg(29) + date * (RawUnit \div LonScale)) % Deg(360)]

SweepDates == START_DATE..(START_DATE + SweepDays - 1)

NextSigns == \E e \in SignEphemerides : ProcessDay(e, MaxDays)

SpecSigns == InitGenerator({START_DATE}) /\ [][NextSigns]_vars

NextStations == \E e \in StationEphemerides : ProcessDay(e, MaxDays)

SpecStations == InitGenerator({START_DATE}) /\ [][NextStations]_vars

NextOrbs == \E e \in OrbEphemerides : ProcessDay(e, MaxDays)

SpecOrbs == InitGenerator({START_DATE}) /\ [][NextOrbs]_vars

NextSweep == ProcessDay(SweepEphemeris(generator_date), MaxDays)

SpecSweep == InitGenerator(SweepDates) /\ [][NextSweep]_vars

\* The level calculator and then the scorer, on one price table: the scorer
\* loads the file the level calculator has saved, or finds none.
NextPipeline ==
    \/ \E e \in LevelRows : AppendPriceRow(e, MaxLevelRows)
    \/ CalculateLevels("forex")
    \/ ScoringRun

SpecPipeline == InitLevels /\ [][NextPipeline]_vars

\* ================================================================ claims

\* Hundredths of a point, the unit of the fields of a score record.
Hundredths(n) == n * 100

\* An instant is in the window of `half` days around the scoring instant.
InWindow(day, half) ==
    /\ ToDatetime(day) >= current_date - Days(half)
    /\ ToDatetime(day) <= current_date + Days(half)

\* C1: in every score record the rating is 'featured' iff total >= 85,
\* 'favorable' iff 70 <= total < 85, 'neutral' iff 50 <= total < 70 and
\* 'unfavorable' iff total < 50, and is_featured is true iff the rating is
\* 'featured'.
C1_RatingThresholds ==
    \A r \in score_result :
        /\ r.rating = "featured" <=> r.total_score >= Hundredths(85)
        /\ r.rating = "favorable" <=>
             (Hundredths(70) <= r.total_score /\ r.total_score < Hundredths(85))
        /\ r.rating = "neutral" <=>
             (Hundredths(50) <= r.total_score /\ r.total_score < Hundredths(70))
        /\ r.rating = "unfavorable" <=> r.total_score < Hundredths(50)
        /\ r.is_featured <=> r.rating = "featured"

\* C1 witness: a record whose total is exactly 85 and which is rated featured.
C1_Witness ==
    \E r \in score_result :
        r.total_score = Hundredths(85) /\ r.rating = "featured" /\ r.is_featured

\* C2: the four component scores stay in their ranges: ingress in
\* {12,15,18,20,22,30}, aspect in [0,40], lunar in {6,8,10,12,14,15,16,18},
\* cycle bonus in {0,10}.
C2_ComponentRanges ==
    \A r \in score_result :
        /\ r.components.ingress_period \in
             {Hundredths(n) : n \in {12, 15, 18, 20, 22, 30}}
        /\ r.components.planetary_aspects >= 0
        /\ r.components.planetary_aspects <= Hundredths(40)
        /\ r.components.lunar_phase \in
             {Hundredths(n) : n \in {6, 8, 10, 12, 14, 15, 16, 18}}
        /\ r.components.cycle_bonus \in {0, Hundredths(10)}

\* C2 witness: a record scored from a window whose aspect rows sum above 40 (a
\* trine with a sector ruler: 20 + 30), so that the clamp decided the score.
C2_Witness ==
    \E r \in score_result :
        /\ r.sector # None
        /\ r.components.planetary_aspects = Hundredths(40)
        /\ \E i \in 1..Len(aspects) :
              /\ aspects[i].aspect_type = "trine"
              /\ aspects[i].primary_scoring
              /\ InWindow(aspects[i].date, ASPECT_WINDOW_DAYS)
              /\ {aspects[i].body1, aspects[i].body2}
                   \cap SECTOR_RULERSHIPS(r.sector).rulers # {}

\* A table as it is, or with one more of the rows.
Extended(table, rows) == {table} \cup {Append(table, e) : e \in rows}

\* C3: the total can exceed 100: the event tables can be filled so that, for
\* some symbol and scoring instant, calculate_confidence_score returns
\* total_score > 100.
C3_TotalCanExceed100 ==
    \E sd \in SymbolData, cd \in Instants,
       asp \in Extended(aspects, DayAspectEvents),
       ing \in Extended(ingresses, DayIngressEvents),
       ret \in Extended(retrogrades, DayRetrogradeEvents),
       lun \in Extended(lunar_phases, DayLunarPhaseEvents),
       cyc \in Extended(lunar_cycle, DayLunarCycleEvents) :
        calculate_confidence_score(
            sd,
            [aspects |-> asp, ingresses |-> ing, lunar_phases |-> lun,
             retrogrades |-> ret, lunar_cycle |-> cyc],
            cd).total_score > Hundredths(100)

\* C3, what the code does: no total is above 30 + 40 + 18 + 10 = 98.
C3_TotalAtMost98 ==
    \A r \in score_result : r.total_score <= Hundredths(98)

\* C3: the highest total is reached.
C3_Total98Reached ==
    \E r \in score_result : r.total_score = Hundredths(98)

\* C4: without a sector the ingress score is 15 and the aspect score is 20,
\* whatever the ingress, aspect and retrograde tables hold.
C4_NoSectorDefaults ==
    \A r \in score_result :
        r.sector = None =>
            /\ r.components.ingress_period = Hundredths(15)
            /\ r.components.planetary_aspects = Hundredths(20)

\* C4 witness: a record without sector, scored with a Sun ingress up to the
\* scoring instant and an aspect row in the window.
C4_Witness ==
    \E r \in score_result :
        /\ r.sector = None
        /\ \E i \in 1..Len(ingresses) :
              ingresses[i].body = "Sun" /\ ToDatetime(ingresses[i].date) <= current_date
        /\ \E i \in 1..Len(aspects) :
              /\ aspects[i].primary_scoring
              /\ aspects[i].aspect_type # "conjunction"
              /\ InWindow(aspects[i].date, ASPECT_WINDOW_DAYS)

\* The Sun ingress rows dated up to the scoring instant.
SunRowsUpToDate ==
    {i \in 1..Len(ingresses) :
        ingresses[i].body = "Sun" /\ ToDatetime(ingresses[i].date) <= current_date}

\* The element of a sign, from ZODIAC_SIGNS.
ElementOf(signName) ==
    ZODIAC_SIGNS[CHOOSE i \in 1..Len(ZODIAC_SIGNS) : ZODIAC_SIGNS[i].name = signName].element

\* The ingress score the spec gives for a sign and a sector, in points.
IngressPoints(signName, sec) ==
    IF signName \in SECTOR_RULERSHIPS(sec).favorable_signs THEN 30
    ELSE CASE ElementOf(signName) = "fire"  -> 22
           [] ElementOf(signName) = "earth" -> 20
           [] ElementOf(signName) = "air"   -> 18
           [] ElementOf(signName) = "water" -> 12

\* C5: with a sector, the ingress score is decided by the new sign of the Sun
\* ingress of greatest date <= scoring date alone: 30 if favorable for the
\* sector, else 22 / 20 / 18 / 12 for fire / earth / air / water; 15 without
\* such a row. Other bodies' rows and later Sun rows do not count.
C5_LatestSunIngress ==
    \A r \in score_result :
        r.sector # None =>
            IF SunRowsUpToDate = {}
            THEN r.components.ingress_period = Hundredths(15)
            ELSE LET latest == CHOOSE i \in SunRowsUpToDate :
                                  \A j \in SunRowsUpToDate :
                                      ingresses[j].date <= ingresses[i].date
                 IN  r.components.ingress_period =
                        Hundredths(IngressPoints(ingresses[latest].sign, r.sector))

\* C5 witness: two Sun ingresses up to the scoring instant whose signs score
\* differently; the record carries the score of the later one.
C5_Witness ==
    \E r \in score_result :
        /\ r.sector # None
        /\ Len(ingresses) = 2
        /\ SunRowsUpToDate = {1, 2}
        /\ ingresses[1].date < ingresses[2].date
        /\ IngressPoints(ingresses[1].sign, r.sector)
             # IngressPoints(ingresses[2].sign, r.sector)
        /\ r.components.ingress_period =
             Hundredths(IngressPoints(ingresses[2].sign, r.sector))

\* Base score of an aspect type, in points, as the spec lists it.
BasePoints(type) ==
    CASE type = "sextile"     -> 15
      [] type = "trine"       -> 20
      [] type = "square"      -> -15
      [] type = "opposition"  -> -10
      [] type = "conjunction" -> 0

\* What one aspect row adds to the score of sector sec, in hundredths.
AspectRowHundredths(row, sec) ==
    IF ~InWindow(row.date, ASPECT_WINDOW_DAYS) THEN 0
    ELSE IF row.primary_scoring
    THEN IF {row.body1, row.body2} \cap SECTOR_RULERSHIPS(sec).rulers # {}
         THEN BasePoints(row.aspect_type) * 150
         ELSE BasePoints(row.aspect_type) * 100
    ELSE IF row.exact THEN row.influence_weight * 5
    ELSE 0

Clamp(x, lo, hi) == IF x < lo THEN lo ELSE IF x > hi THEN hi ELSE x

NoRetrogradeInWindow ==
    \A i \in 1..Len(retrogrades) : ~InWindow(retrogrades[i].date, ASPECT_WINDOW_DAYS)

\* C6: with a sector and no retrograde row in the window, the aspect score is
\* clamp(20 + sum of base x (1.5 with a ruler) over the primary rows of the
\* window + sum of influence/100 x 5 over its exact bonus rows, 0, 40), one
\* term per daily row.
C6_AspectScoreFormula ==
    \A r \in score_result :
        (r.sector # None /\ NoRetrogradeInWindow) =>
            r.components.planetary_aspects =
                Clamp(Hundredths(20)
                      + SeqSum([i \in 1..Len(aspects) |->
                                  AspectRowHundredths(aspects[i], r.sector)]),
                      0, Hundredths(40))

\* C6 witness: the same pair in opposition on two days of the window, neither
\* body a ruler of the sector: each daily row takes its 10 points, 20 - 10 - 10.
C6_Witness ==
    \E r \in score_result :
        /\ r.sector # None
        /\ NoRetrogradeInWindow
        /\ Len(aspects) = 2
        /\ aspects[1].date < aspects[2].date
        /\ aspects[1].body1 = aspects[2].body1
        /\ aspects[1].body2 = aspects[2].body2
        /\ aspects[1].aspect_type = "opposition"
        /\ aspects[2].aspect_type = "opposition"
        /\ \A i \in {1, 2} : InWindow(aspects[i].date, ASPECT_WINDOW_DAYS)
        /\ {aspects[1].body1, aspects[1].body2}
             \cap SECTOR_RULERSHIPS(r.sector).rulers = {}
        /\ r.components.planetary_aspects = 0

\* The bonus-eligible nodal-cycle rows within 30 days of the scoring instant.
EligibleCycleRows ==
    {i \in 1..Len(lunar_cycle) :
        /\ lunar_cycle[i].bonus_eligible
        /\ Abs(ToDatetime(lunar_cycle[i].date) - current_date) <= Days(30)}

MatchingSectors ==
    {i \in 1..Len(SECTOR_ORDER) :
        \E k \in 1..Len(SECTOR_RULERSHIPS(SECTOR_ORDER[i]).keywords) :
            Contains(Lower(symbol), SECTOR_RULERSHIPS(SECTOR_ORDER[i]).keywords[k])}

\* The category default the spec lists.
DefaultSector ==
    CASE category = "crypto" -> "tech"
      [] category \in {"forex", "rates-macro", "stress"} -> "finance"
      [] category = "commodities" -> "real_estate"
      [] OTHER -> None

\* C8: identify_sector returns the first sector, in the order tech, athletics,
\* finance, luxury, healthcare, real_estate, communication, entertainment, with
\* a keyword in the lower-cased symbol, and the category default only when no
\* sector has one.
C8_FirstKeywordMatchWins ==
    \A s \in sector :
        /\ SECTOR_ORDER = <<"tech", "athletics", "finance", "luxury", "healthcare",
                            "real_estate", "communication", "entertainment">>
        /\ IF MatchingSectors # {}
           THEN s = SECTOR_ORDER[Min(MatchingSectors)]
           ELSE s = DefaultSector

\* C8 witness: a symbol with keywords of two sectors, in a category whose
\* default is a third one, classified to the sector declared first.
C8_Witness ==
    \E s \in sector :
        /\ Cardinality(MatchingSectors) = 2
        /\ DefaultSector # None
        /\ \A i \in MatchingSectors : SECTOR_ORDER[i] # DefaultSector
        /\ s = SECTOR_ORDER[Min(MatchingSectors)]

ContainsBank == Contains(Lower(symbol), <<"b","a","n","k">>)

\* C9: every symbol containing "bank", in any letter case, is classified to
\* finance, for every category and whatever else the symbol contains.
C9_BankIsFinance ==
    \A s \in sector : ContainsBank => s = "finance"

\* C9 amended: every symbol containing "bank", in any letter case, and no
\* keyword of the sectors declared before finance (tech, athletics) is
\* classified to finance, for every category.
C9_BankIsFinanceUnlessEarlierKeyword ==
    \A s \in sector :
        (ContainsBank /\ \A i \in MatchingSectors : i >= 3) => s = "finance"

\* C9 witness: a symbol with "bank" in capitals and no tech or athletics
\* keyword, in a category whose default is not finance, classified to finance.
C9_Witness ==
    \E s \in sector :
        /\ Contains(symbol, <<"B","A","N","K">>)
        /\ \A i \in MatchingSectors : i >= 3
        /\ DefaultSector \notin {"finance", None}
        /\ s = "finance"

\* C10: get_zodiac_sign is periodic with period 360, also when L + 360k is
\* negative, and sign(L) is the sign at index floor(L/30) mod 12.
C10_SignPeriodic ==
    \A p \in sign_result :
        /\ p[1] = p[2]
        /\ p[1] = ZODIAC_SIGNS[((longitude \div (30 * LonScale)) % 12) + 1].name
        /\ p[2] = ZODIAC_SIGNS[(((longitude + FullTurn * turns) \div (30 * LonScale)) % 12) + 1].name

\* C10, what the code does: the two signs agree when L + 360k is not negative.
C10_SignPeriodicNonNegative ==
    \A p \in sign_result :
        longitude + FullTurn * turns >= 0 => p[1] = p[2]

\* The rows of the price table that get_anchor_price may read for a call:
\* those of the asked symbol.
SymbolRows(sym) == {price_df[i] : i \in {j \in 1..Len(price_df) : price_df[j].symbol = sym}}

\* The price cells of a row.
PriceCells(row) == {row[k] : k \in DOMAIN row \ {"date", "symbol"}}

\* The dates a resolution looks at, in the order the claim gives.
ResolutionOrder == <<0, -3, -2, -1, 1, 2, 3>>

\* C11: get_anchor_price reads the row of the first date, in the order anchor
\* date, -3, -2, -1, +1, +2, +3 days, that has a row for the symbol: the price it
\* returns is a cell of that row (or no price, if that row has a not-a-number
\* cell), and with no row on any of the seven dates it returns no price.
C11_ProbeOrder ==
    \A ap \in anchor_price :
      LET rows == SymbolRows(ap.symbol)
          hits == {k \in 1..Len(ResolutionOrder) :
                     \E r \in rows : r.date = ap.date + ResolutionOrder[k]}
      IN  IF hits = {} THEN ap.price = NoneValue
          ELSE LET row == CHOOSE r \in rows :
                            r.date = ap.date + ResolutionOrder[Min(hits)]
               IN  IF ap.price = NoneValue THEN NaN \in PriceCells(row)
                   ELSE ap.price \in PriceCells(row)

\* C11 witness: the symbol has rows 3 days before and 1 day after the anchor
\* date only, and the price returned is a cell of the row 3 days before.
C11_Witness ==
    \E ap \in anchor_price :
      /\ {r.date : r \in SymbolRows(ap.symbol)} = {ap.date - 3, ap.date + 1}
      /\ ap.price \in {Float(10 * (ap.date - 3) + c) : c \in {-1, 0, 1}}

\* The row a resolution reads: that of the first date of ResolutionOrder with a
\* row for the symbol (no row if none of the seven dates has one).
ResolvedRow(ap) ==
    LET rows == SymbolRows(ap.symbol)
        hits == {k \in 1..Len(ResolutionOrder) :
                   \E r \in rows : r.date = ap.date + ResolutionOrder[k]}
    IN  IF hits = {} THEN {}
        ELSE {r \in rows : r.date = ap.date + ResolutionOrder[Min(hits)]}

\* The column of the anchor kind.
KindColumn(ap) == IF ap.anchor_type = "high" THEN "high" ELSE "low"

\* C12: for a resolved row the price returned is the row's high (kind high) or
\* low (kind low) cell, or the generic price cell whenever that column is absent
\* from the table or the cell is not-a-number; there is no price only if the
\* generic price is not-a-number too.
C12_PriceFallback ==
    \A ap \in anchor_price : \A row \in ResolvedRow(ap) :
      LET hasKind == KindColumn(ap) \in DOMAIN row /\ row[KindColumn(ap)] # NaN
      IN  ap.price = IF hasKind THEN row[KindColumn(ap)]
                     ELSE IF row.price # NaN THEN row.price
                     ELSE NoneValue

\* What the code does instead: the generic price is read only if the table has
\* no column of the anchor kind; a not-a-number cell of that column leaves the
\* anchor without a price.
C12_FallbackOnlyWhenColumnAbsent ==
    \A ap \in anchor_price : \A row \in ResolvedRow(ap) :
      LET cell == IF KindColumn(ap) \in DOMAIN row THEN row[KindColumn(ap)]
                  ELSE row.price
      IN  ap.price = IF cell # NaN THEN cell ELSE NoneValue

\* The failing input of C12 is reached: the resolved row has a not-a-number
\* high cell and a generic price, and the anchor of kind high gets no price.
C12_NaNHighDropsAnchor ==
    \E ap \in anchor_price : \E row \in ResolvedRow(ap) :
      /\ ap.anchor_type = "high" /\ "high" \in DOMAIN row
      /\ row.high = NaN /\ row.price # NaN
      /\ ap.price = NoneValue

\* The anchors of the trailing window of the run, in date order, that resolve
\* to a price for a symbol: the resolved row's cell of the kind column, or its
\* generic price if the table has no such column, is a number.
ResolvedAnchors(sym) ==
    SelectSeq(anchors_df,
              LAMBDA a :
                /\ ToDatetime(a.date) >= current_date - Days(365 * ANALYSIS_YEARS)
                /\ \E row \in ResolvedRow([symbol |-> sym, date |-> a.date,
                                           anchor_type |-> a.anchor_type]) :
                     (IF KindColumn(a) \in DOMAIN row THEN row[KindColumn(a)]
                      ELSE row.price) # NaN)

\* The entries of the level output for a symbol.
ResultsOf(sym) ==
    UNION {{res[i] : i \in {j \in 1..Len(res) : res[j].symbol = sym}} : res \in all_results}

\* C13: the run of the level calculator ends with an output whatever anchors
\* fail to resolve; a symbol of the price table is in the output (once) iff at
\* least 2 anchors of the trailing window resolve for it, and then its anchors
\* are the n resolved ones and its level sets are the n - 1 sets of the
\* consecutive pairs of these.
C13_LevelSetsPerResolvedPair ==
    \A res \in all_results : \A sym \in {price_df[i].symbol : i \in 1..Len(price_df)} :
      LET resolved == ResolvedAnchors(sym)
          n        == Len(resolved)
      IN  /\ Cardinality({j \in 1..Len(res) : res[j].symbol = sym})
               = IF n >= 2 THEN 1 ELSE 0
          /\ \A r \in ResultsOf(sym) :
               /\ [i \in 1..Len(r.anchors) |-> r.anchors[i].date]
                    = [i \in 1..n |-> resolved[i].date]
               /\ Cardinality(DOMAIN r.fibonacci_levels) = n - 1
               /\ DOMAIN r.fibonacci_levels
                    = {<<resolved[i].date, resolved[i + 1].date>> : i \in 1..(n - 1)}
               /\ \A i \in 1..(n - 1) :
                    LET ls == r.fibonacci_levels[<<resolved[i].date, resolved[i + 1].date>>]
                    IN  /\ ls.from_anchor = r.anchors[i]
                        /\ ls.to_anchor = r.anchors[i + 1]

\* C13 witness: of three anchors of the window the middle one does not resolve;
\* the symbol is in the output with the one level set of the two others.
C13_Witness ==
    \E r \in ResultsOf(EURUSD) :
      /\ \E i \in 2..(Len(anchors_df) - 1) :
           /\ \A k \in 1..Len(r.anchors) : r.anchors[k].date # anchors_df[i].date
           /\ DOMAIN r.fibonacci_levels
                = {<<anchors_df[i - 1].date, anchors_df[i + 1].date>>}
      /\ Len(r.anchors) = 2

\* The keys of a level set's retracements, with their ratios in thousandths.
RatioKeys ==
    {<<<<"0", ".", "2", "3", "6">>, 236>>, <<<<"0", ".", "3", "8", "2">>, 382>>,
     <<<<"0", ".", "5", "0", "0">>, 500>>, <<<<"0", ".", "6", "1", "8">>, 618>>,
     <<<<"0", ".", "7", "8", "6">>, 786>>, <<<<"1", ".", "0", "0", "0">>, 1000>>,
     <<<<"1", ".", "2", "7", "2">>, 1272>>, <<<<"1", ".", "6", "1", "8">>, 1618>>}

\* The level sets of the output.
LevelSetsOfOutput ==
    UNION {UNION {{res[j].fibonacci_levels[k] : k \in DOMAIN res[j].fibonacci_levels} :
                    j \in 1..Len(res)} : res \in all_results}

\* C14: in every level set high is the larger and low the smaller of the two
\* anchor prices, the levels are those of the 8 ratios and no other, level(r) is
\* low + (high - low) r for r <= 1.0 and high + (high - low)(r - 1) for r > 1.0
\* (in thousandths of a price unit), level(1.0) is high, and for high 100 and
\* low 50 level(0.5) is 75 and level(1.618) is 130.9.
C14_RetracementLevels ==
    \A ls \in LevelSetsOfOutput :
      LET price1 == ls.from_anchor.price
          price2 == ls.to_anchor.price
      IN  /\ ls.high \in {price1, price2} /\ ls.high >= price1 /\ ls.high >= price2
          /\ ls.low \in {price1, price2} /\ ls.low <= price1 /\ ls.low <= price2
          /\ DOMAIN ls.retracements = {kr[1] : kr \in RatioKeys}
          /\ \A kr \in RatioKeys :
               ls.retracements[kr[1]] =
                 IF kr[2] <= 1000 THEN 1000 * ls.low + (ls.high - ls.low) * kr[2]
                 ELSE 1000 * ls.high + (ls.high - ls.low) * (kr[2] - 1000)
          /\ ls.retracements[<<"1", ".", "0", "0", "0">>] = 1000 * ls.high
          /\ (ls.high = 100 /\ ls.low = 50) =>
               /\ ls.retracements[<<"0", ".", "5", "0", "0">>] = 75000
               /\ ls.retracements[<<"1", ".", "6", "1", "8">>] = 130900

\* C14 witness: a level set between the prices 50 and 100, in either order,
\* with the levels 75 and 130.9.
C14_Witness ==
    \E ls \in LevelSetsOfOutput :
      /\ ls.from_anchor.price = 100 /\ ls.to_anchor.price = 50
      /\ ls.high = 100 /\ ls.low = 50
      /\ ls.retracements[<<"0", ".", "5", "0", "0">>] = 75000
      /\ ls.retracements[<<"1", ".", "6", "1", "8">>] = 130900

\* The place of a record's symbol in the level data the run was made on.
EnumerationIndex(r) ==
    CHOOSE i \in 1..Len(fibonacci_data) :
      fibonacci_data[i].symbol = r.symbol /\ fibonacci_data[i].category = r.category

\* C15: the saved list holds one record per entry of the level data, ordered by
\* total_score descending, and records of equal total_score are in the order of
\* their entries in the level data.
C15_SortedStable ==
    all_scores # <<>> =>
      /\ Len(all_scores) = Len(fibonacci_data)
      /\ {EnumerationIndex(all_scores[k]) : k \in 1..Len(all_scores)}
           = 1..Len(fibonacci_data)
      /\ \A k, l \in 1..Len(all_scores) :
           k < l =>
             /\ all_scores[k].total_score >= all_scores[l].total_score
             /\ all_scores[k].total_score = all_scores[l].total_score =>
                  EnumerationIndex(all_scores[k]) < EnumerationIndex(all_scores[l])

\* C15 witness: three records, the second entry of the level data first with
\* the highest total, then the two others with equal totals.
C15_Witness ==
    /\ Len(all_scores) = 3
    /\ EnumerationIndex(all_scores[1]) = 2
    /\ all_scores[1].total_score > all_scores[2].total_score
    /\ all_scores[2].total_score = all_scores[3].total_score

\* The number of times a record is in a list.
Occurrences(list, r) == Cardinality({i \in 1..Len(list) : list[i] = r})

\* C16: the featured list holds every saved record whose total is at least 85
\* exactly once, no record whose total is below 85, and nothing else.
C16_FeaturedFilter ==
    /\ \A k \in 1..Len(all_scores) :
         Occurrences(featured_symbols, all_scores[k]) =
           IF all_scores[k].total_score >= Hundredths(FEATURED_THRESHOLD) THEN 1 ELSE 0
    /\ \A k \in 1..Len(featured_symbols) :
         Occurrences(all_scores, featured_symbols[k]) = 1

\* C16 witness: a run with a featured record and a record that is not.
C16_Witness ==
    /\ featured_symbols # <<>>
    /\ Len(featured_symbols) < Len(all_scores)
    /\ \E k \in 1..Len(all_scores) :
         /\ all_scores[k].total_score >= Hundredths(FEATURED_THRESHOLD)
         /\ all_scores[k].total_score < Hundredths(FAVORABLE_THRESHOLD) + Hundredths(20)

\* The aspect score of a record when no retrograde penalty applies, in
\* hundredths: 20 plus what the aspect rows of the file add, clamped.
AspectScoreWithoutPenalty(r) ==
    IF r.sector = None \/ "aspects" \notin astro_files THEN Hundredths(20)
    ELSE Clamp(Hundredths(20)
               + SeqSum([i \in 1..Len(aspects) |->
                           AspectRowHundredths(aspects[i], r.sector)]),
               0, Hundredths(40))

\* C17: a run made with event files missing still saves a record for every
\* entry of the level data; in each record the component of a missing table is
\* its neutral default (ingress 15, aspects 20, lunar phase 10, cycle bonus 0,
\* and no retrograde penalty without the retrograde file), and the component of
\* a table that exists is what its scorer gives on that table.
C17_AbsentTableDefaults ==
    score_result # {} =>
      /\ Len(all_scores) = Len(fibonacci_data)
      /\ \A k \in 1..Len(all_scores) :
           LET r  == all_scores[k]
               c  == r.components
               si == SectorInfo(r.sector)
           IN  /\ c.ingress_period =
                    IF "ingresses" \notin astro_files THEN Hundredths(15)
                    ELSE Round2(score_ingress_period(current_date, ingresses, si))
               /\ c.lunar_phase =
                    IF "lunar_phases" \notin astro_files THEN Hundredths(10)
                    ELSE Round2(score_lunar_phase(current_date, lunar_phases))
               /\ c.cycle_bonus =
                    IF "lunar_cycle" \notin astro_files THEN 0
                    ELSE Round2(score_18yr_lunar_cycle(current_date, lunar_cycle))
               /\ c.planetary_aspects =
                    IF "aspects" \notin astro_files THEN Hundredths(20)
                    ELSE IF "retrogrades" \notin astro_files
                    THEN AspectScoreWithoutPenalty(r)
                    ELSE Round2(score_planetary_aspects(current_date, aspects,
                                                        retrogrades, si))

\* C17 witness: the aspect file is missing although the generator produced a
\* trine of a ruler, and the retrograde file too; the record has the neutral 20
\* for the aspects and the 30 of the favorable ingress.
C17_Witness ==
    \E k \in 1..Len(all_scores) :
      /\ astro_files = ASTRO_FILES \ {"aspects", "retrogrades"}
      /\ aspects # <<>> /\ retrogrades # <<>>
      /\ all_scores[k].sector # None
      /\ all_scores[k].components.planetary_aspects = Hundredths(20)
      /\ all_scores[k].components.ingress_period = Hundredths(30)

\* The rows of the retrograde log that start a retrograde of a ruler of sector
\* sec within the window of the scoring instant.
RulerStartsInWindow(sec) ==
    {i \in 1..Len(retrogrades) :
        /\ retrogrades[i].status = "starts"
        /\ retrogrades[i].body \in SECTOR_RULERSHIPS(sec).rulers
        /\ InWindow(retrogrades[i].date, ASPECT_WINDOW_DAYS)}

\* The aspect rows within the window of the scoring instant.
AspectsInWindow == {i \in 1..Len(aspects) : InWindow(aspects[i].date, ASPECT_WINDOW_DAYS)}

\* 20, plus what the aspect rows of the window add, minus 10 for every start of
\* a ruler's retrograde in the window, clamped to [0, 40]; in hundredths.
AspectScoreWithPenalties(sec) ==
    Clamp(Hundredths(20)
          + SeqSum([i \in 1..Len(aspects) |-> AspectRowHundredths(aspects[i], sec)])
          - Hundredths(10) * Cardinality(RulerStartsInWindow(sec)),
          0, Hundredths(40))

\* C18: with a sector and a non-empty aspect log, every 'starts' row of a ruler
\* in the window takes 10 points off the aspect score before clamping, whatever
\* aspect rows the window holds, none included: the score is then
\* clamp(20 - 10 x count, 0, 40).
C18_RetrogradePenaltyAlways ==
    \A r \in score_result :
      (r.sector # None /\ aspects # <<>>) =>
        r.components.planetary_aspects = AspectScoreWithPenalties(r.sector)

\* What the code does: the penalties are taken when the window holds an aspect
\* row; with no aspect row in the window the score is 20, penalties or not.
C18_PenaltyOnlyWithAspectInWindow ==
    \A r \in score_result :
      r.sector # None =>
        r.components.planetary_aspects =
          IF AspectsInWindow = {} THEN Hundredths(20)
          ELSE AspectScoreWithPenalties(r.sector)

\* The failing input of C18 is reached: a non-empty aspect log with no row in
\* the window, a ruler's retrograde starting in the window, and a score of 20.
C18_PenaltySkipped ==
    \E r \in score_result :
      /\ r.sector # None /\ aspects # <<>> /\ AspectsInWindow = {}
      /\ RulerStartsInWindow(r.sector) # {}
      /\ r.components.planetary_aspects = Hundredths(20)

\* The retrograde log without the rows of the outer bodies (the bonus tier).
PrimaryTierRetrogrades == SelectSeq(retrogrades, LAMBDA rx : rx.primary_scoring)

\* C19: the 'starts' rows of the outer bodies take nothing off the aspect score,
\* rulers of the sector or not: the score is the one the primary-tier rows of
\* the retrograde log give alone.
C19_OuterBodyNotPenalised ==
    \A r \in score_result :
      r.components.planetary_aspects =
        Round2(score_planetary_aspects(current_date, aspects, PrimaryTierRetrogrades,
                                       SectorInfo(r.sector)))

\* What the code does: a ruler's 'starts' row in the window costs 10 points
\* whatever its tier. Reached: Uranus, a ruler of tech recorded as bonus-tier,
\* starts a retrograde in the window and 10 points are taken.
C19_OuterRulerPenalised ==
    \E r \in score_result :
      /\ r.sector = "tech"
      /\ Len(retrogrades) = 1
      /\ retrogrades[1].body = "Uranus" /\ ~retrogrades[1].primary_scoring
      /\ RulerStartsInWindow(r.sector) = {1}
      /\ Len(aspects) = 1 /\ AspectsInWindow = {1}
      /\ aspects[1].aspect_type = "conjunction"
      /\ r.components.planetary_aspects = Hundredths(10)

\* A day is one of the 7 calendar days around the scoring date.
InCalendarWindow(day) == Abs(day - StrfDate(current_date)) <= ASPECT_WINDOW_DAYS

\* What one aspect row adds to the score of sector sec when the window is the
\* 7 calendar days, in hundredths.
CalendarAspectRowHundredths(row, sec) ==
    IF ~InCalendarWindow(row.date) THEN 0
    ELSE IF row.primary_scoring
    THEN IF {row.body1, row.body2} \cap SECTOR_RULERSHIPS(sec).rulers # {}
         THEN BasePoints(row.aspect_type) * 150
         ELSE BasePoints(row.aspect_type) * 100
    ELSE IF row.exact THEN row.influence_weight * 5
    ELSE 0

\* The aspect score when the window is the 7 calendar days [date-3, date+3].
CalendarAspectScore(sec) ==
    Clamp(Hundredths(20)
          + SeqSum([i \in 1..Len(aspects) |->
                      CalendarAspectRowHundredths(aspects[i], sec)])
          - Hundredths(10) * Cardinality(
              {i \in 1..Len(retrogrades) :
                 /\ retrogrades[i].status = "starts"
                 /\ retrogrades[i].body \in SECTOR_RULERSHIPS(sec).rulers
                 /\ InCalendarWindow(retrogrades[i].date)}),
          0, Hundredths(40))

\* C20: at every scoring instant, time of day or not, the rows that count are
\* those of the 7 calendar days [date-3, date+3], both bounds included, and no
\* row 4 days away. Stated for the runs whose aspect log has a row on the
\* scoring day itself, so that the window is never empty.
C20_CalendarWindow ==
    \A r \in score_result :
      (r.sector # None /\ \E i \in 1..Len(aspects) : aspects[i].date = StrfDate(current_date))
        => r.components.planetary_aspects = CalendarAspectScore(r.sector)

\* What the code does: the window is [instant - 3 days, instant + 3 days], which
\* is the 7 calendar days only when the instant is a midnight.
C20_CalendarWindowAtMidnight ==
    \A r \in score_result :
      (/\ r.sector # None
       /\ current_date = ToDatetime(StrfDate(current_date))
       /\ \E i \in 1..Len(aspects) : aspects[i].date = StrfDate(current_date))
        => r.components.planetary_aspects = CalendarAspectScore(r.sector)

\* The failing input of C20 is reached: the run is made after midnight, the
\* log has a conjunction on the scoring day and a trine exactly 3 days before,
\* and the trine adds nothing.
C20_ThirdDayBeforeIgnored ==
    \E r \in score_result :
      /\ r.sector # None
      /\ current_date > ToDatetime(StrfDate(current_date))
      /\ Len(aspects) = 2 /\ retrogrades = <<>>
      /\ aspects[1].date = StrfDate(current_date) - ASPECT_WINDOW_DAYS
      /\ aspects[1].aspect_type = "trine"
      /\ aspects[2].date = StrfDate(current_date)
      /\ aspects[2].aspect_type = "conjunction"
      /\ r.components.planetary_aspects = Hundredths(20)

\* ---------------------------------------------------------------------
\* The positions of the day processed last, and the entries a step appended
\* to a log.
Today == CHOOSE p \in previous_positions : TRUE

Appended(log_before, log_after) ==
    SubSeq(log_after, Len(log_before) + 1, Len(log_after))

IsPrefix(s, t) == Len(s) <= Len(t) /\ SubSeq(t, 1, Len(s)) = s

PrimaryBodies == {PRIMARY_PLANETS[i] : i \in 1..Len(PRIMARY_PLANETS)}

\* The entries of a log that are about one body, in the order of the log.
OfBody(log, b) == SelectSeq(log, LAMBDA e : e.body = b)

\* C21: on every processed day t the entries appended to the ingress log are
\* these: one for a primary body iff t is not the first day and the body's
\* sign on day t differs from its sign on day t-1, dated t, with the new sign
\* as sign and the sign of day t-1 as from_sign; none on the first day; never
\* two for one body.
C21_IngressStep ==
    (day_count' = day_count + 1) =>
        LET new == Appended(ingresses, ingresses')
            today == CHOOSE p \in previous_positions' : TRUE
        IN  /\ IsPrefix(ingresses, ingresses')
            /\ previous_positions = {} => new = <<>>
            /\ \A b \in PrimaryBodies :
                  /\ Len(OfBody(new, b)) <= 1
                  /\ (Len(OfBody(new, b)) = 1) <=>
                        /\ previous_positions # {}
                        /\ today[b].sign.name # Today[b].sign.name
            /\ \A i \in 1..Len(new) :
                  /\ new[i].body \in PrimaryBodies
                  /\ new[i].date = generator_date
                  /\ new[i].sign = today[new[i].body].sign.name
                  /\ new[i].from_sign = Today[new[i].body].sign.name

C21_IngressIffSignChanged == [][C21_IngressStep]_vars

\* Reached: after three days one ingress of the Sun is logged, on the second
\* day, and none on the first and the third day.
C21_Witness ==
    /\ day_count = 3
    /\ OfBody(ingresses, "Sun") # <<>>
    /\ \A i \in 1..Len(ingresses) : ingresses[i].date = START_DATE + 1
    /\ Today["Sun"].sign.name = "Taurus"

\* The bodies the claim names for retrograde events.
StationBodies ==
    {"Mercury", "Venus", "Mars", "Jupiter", "Saturn", "Uranus", "Neptune", "Pluto"}

OuterBodies == {OUTER_PLANETS[i] : i \in 1..Len(OUTER_PLANETS)}

\* C22: on every processed day t the entries appended to the retrograde log
\* are these: one for a body iff the body is one of Mercury .. Pluto, t is not
\* the first day and the body's retrograde flag on day t differs from its flag
\* on day t-1; the status is "starts" iff the flag on day t is true; Sun and
\* Moon get none; an outer body's entry is bonus-tier, with bonus_eligible
\* equal to the stationary flag of day t and the body's influence weight; a
\* primary body's entry is primary-tier.
C22_RetrogradeStep ==
    (day_count' = day_count + 1) =>
        LET new == Appended(retrogrades, retrogrades')
            today == CHOOSE p \in previous_positions' : TRUE
        IN  /\ IsPrefix(retrogrades, retrogrades')
            /\ \A b \in Bodies :
                  /\ Len(OfBody(new, b)) <= 1
                  /\ (Len(OfBody(new, b)) = 1) <=>
                        /\ b \in StationBodies
                        /\ previous_positions # {}
                        /\ today[b].retrograde # Today[b].retrograde
            /\ \A i \in 1..Len(new) :
                  LET b == new[i].body
                  IN  /\ b \notin {"Sun", "Moon"}
                      /\ new[i].date = generator_date
                      /\ (new[i].status = "starts") <=> today[b].retrograde
                      /\ new[i].status \in {"starts", "ends"}
                      /\ IF b \in OuterBodies
                         THEN /\ ~new[i].primary_scoring
                              /\ new[i].bonus_eligible = today[b].stationary
                              /\ new[i].influence_weight = OuterInfluence(b)
                         ELSE new[i].primary_scoring

C22_RetrogradeIffFlagChanged == [][C22_RetrogradeStep]_vars

\* Reached: Mercury has started and ended a retrograde, Uranus has a
\* bonus-eligible and a not bonus-eligible entry, and the Moon's flag has
\* changed on the last day.
C22_Witness ==
    /\ day_count = MaxDays
    /\ \E i, j \in 1..Len(retrogrades) :
          /\ i < j
          /\ retrogrades[i].body = "Mercury" /\ retrogrades[i].status = "starts"
          /\ retrogrades[j].body = "Mercury" /\ retrogrades[j].status = "ends"
    /\ \E i, j \in 1..Len(retrogrades) :
          /\ retrogrades[i].body = "Uranus" /\ retrogrades[i].bonus_eligible
          /\ retrogrades[j].body = "Uranus" /\ ~retrogrades[j].bonus_eligible
    /\ Today["Moon"].retrograde
    /\ OfBody(retrogrades, "Moon") = <<>>

\* C28: in the retrograde log the entries of one body alternate between
\* "starts" and "ends", and the status of the body's latest entry is the
\* body's retrograde state on the day processed last.
C28_RetrogradeAlternates ==
    \A b \in Bodies :
        LET log == OfBody(retrogrades, b)
        IN  /\ \A i \in 1..(Len(log) - 1) : log[i].status # log[i + 1].status
            /\ log # <<>> =>
                  (log[Len(log)].status = "starts") <=> Today[b].retrograde

\* Reached: three entries of an outer body, the latest a "starts".
C28_Witness ==
    \E b \in Bodies :
        LET log == OfBody(retrogrades, b)
        IN  Len(log) = 3 /\ log[3].status = "starts" /\ ~log[2].primary_scoring

\* C29: in the ingress log the entries of one body are in non-decreasing date
\* order, the from_sign of each is the sign of the body's entry before it, and
\* the sign of the body's latest entry is the body's sign on the day processed
\* last.
C29_IngressChain ==
    \A b \in PrimaryBodies :
        LET log == OfBody(ingresses, b)
        IN  /\ \A i \in 1..(Len(log) - 1) :
                  /\ log[i].date <= log[i + 1].date
                  /\ log[i + 1].from_sign = log[i].sign
            /\ log # <<>> => log[Len(log)].sign = Today[b].sign.name

\* Reached: the Moon has gone from Scorpio to Sagittarius, back, and to
\* Sagittarius again.
C29_Witness ==
    LET log == OfBody(ingresses, "Moon")
    IN  /\ Len(log) = 3
        /\ log[1].from_sign = "Scorpio" /\ log[1].sign = "Sagittarius"
        /\ log[2].sign = "Scorpio" /\ log[3].sign = "Sagittarius"

\* The days a run has processed.
ProcessedDays == (generator_date - day_count)..(generator_date - 1)

\* |cycle_position - degree| <= tolerance for entry i of the key-phase table,
\* with cycle_position = (days mod 6793.5) / 6793.5 x 360; both sides are
\* multiplied by the number of half days of a cycle.
WithinTolerance(d, i) ==
    Abs(360 * ((2 * d) % CYCLE_HALF_DAYS) - CYCLE_PHASES[i].degree * CYCLE_HALF_DAYS)
        <= CYCLE_PHASES[i].orb * CYCLE_HALF_DAYS

BelowTwoDegrees(d, i) ==
    Abs(360 * ((2 * d) % CYCLE_HALF_DAYS) - CYCLE_PHASES[i].degree * CYCLE_HALF_DAYS)
        < 2 * CYCLE_HALF_DAYS

\* C23: for every processed day a nodal-cycle record is in the log iff some
\* entry of the key-phase table is within its tolerance of the day's cycle
\* position; the record carries the first such entry in table order, and it
\* is bonus-eligible only when that phase is start, opposition or completion
\* and the distance is below 2 degrees.
C23_NodalRecord ==
    /\ Len(CYCLE_PHASES) = 7
    /\ \A d \in ProcessedDays :
          LET records == SelectSeq(lunar_cycle, LAMBDA r : r.date = d)
              matching == {i \in 1..Len(CYCLE_PHASES) : WithinTolerance(d, i)}
          IN  /\ Len(records) <= 1
              /\ (Len(records) = 1) <=> matching # {}
              /\ Len(records) = 1 =>
                    /\ records[1].key_phase.phase = CYCLE_PHASES[Min(matching)].phase
                    /\ records[1].bonus_eligible =>
                          /\ records[1].key_phase.phase \in {"start", "opposition", "completion"}
                          /\ BelowTwoDegrees(d, Min(matching))

\* Reached: a run that enters the window of the opposition: its first day has
\* no record, a later day has a bonus-eligible one.
C23_Witness ==
    /\ day_count = MaxDays
    /\ lunar_cycle # <<>>
    /\ Len(lunar_cycle) < day_count
    /\ lunar_cycle[1].date > generator_date - day_count
    /\ lunar_cycle[1].key_phase.phase = "opposition"
    /\ lunar_cycle[1].bonus_eligible

Reverse(s) == [i \in 1..Len(s) |-> s[Len(s) + 1 - i]]

\* The aspect definitions whose window holds a folded separation.
AspectsMatching(diff) ==
    {i \in 1..Len(ASPECTS) :
        Abs(diff - ASPECTS[i].degrees * LonUnit) <= ASPECTS[i].orb * LonUnit}

\* The key phases within their tolerance of the cycle position of a day.
PhasesMatching(d) ==
    {i \in 1..Len(CYCLE_PHASES) :
        CycleDiff(d, CYCLE_PHASES[i].degree) < CYCLE_PHASES[i].orb * CYCLE_HALF_DAYS}

\* C30: for the separation of Sun and Moon on the day processed last (every
\* multiple of 1/LonScale degree in [0, 180] over the runs) at most one aspect
\* definition matches, and for the cycle position of that day at most one key
\* phase matches; check_aspect and the key-phase matcher return what they
\* would return with any matching entry first in the table, and with the
\* table reversed.
C30_DisjointWindows ==
    day_count > 0 =>
        LET d == generator_date - 1
            lon1 == Today["Sun"].longitude
            lon2 == Today["Moon"].longitude
            diff == FoldedSeparation(lon1, lon2)
        IN  /\ diff >= 0 /\ diff <= 180 * LonUnit
            /\ Cardinality(AspectsMatching(diff)) <= 1
            /\ Cardinality(PhasesMatching(d)) <= 1
            /\ \A i \in AspectsMatching(diff) :
                  FirstAspect(<<ASPECTS[i]>>, diff, 1) = check_aspect(lon1, lon2)
            /\ FirstAspect(Reverse(ASPECTS), diff, 1) = check_aspect(lon1, lon2)
            /\ \A i \in PhasesMatching(d) :
                  KeyPhase(<<CYCLE_PHASES[i]>>, d) = KeyPhase(CYCLE_PHASES, d)
            /\ KeyPhase(Reverse(CYCLE_PHASES), d) = KeyPhase(CYCLE_PHASES, d)

\* Reached: a day on which Sun and Moon are 64 degrees apart, the edge of the
\* window of the sextile, and the cycle position is within a key phase.
C30_Witness ==
    /\ day_count > 0
    /\ FoldedSeparation(Today["Sun"].longitude, Today["Moon"].longitude) = 64 * LonUnit
    /\ AspectsMatching(64 * LonUnit) # {}
    /\ PhasesMatching(generator_date - 1) # {}

\* C25: in every aspect entry of the log, exact is true iff the orb stored in
\* the entry (hundredths of a degree) is below 1 degree.
C25_ExactAgreesWithOrb ==
    \A i \in 1..Len(aspects) : aspects[i].exact <=> aspects[i].orb < 100

\* What holds instead: in the entries of the day processed last, exact is true
\* iff the distance before rounding is below 1 degree, for the primary pairs,
\* and a bonus entry exists only at such a distance.
C25_ExactFromUnroundedOrb ==
    \A i \in 1..Len(aspects) :
        aspects[i].date = generator_date - 1 =>
            LET diff == FoldedSeparation(Today[aspects[i].body1].longitude,
                                         Today[aspects[i].body2].longitude)
                type == CHOOSE k \in 1..Len(ASPECTS) : ASPECTS[k].name = aspects[i].aspect_type
            IN  aspects[i].exact <=> Abs(diff - ASPECTS[type].degrees * LonUnit) < LonUnit

\* Reached: a primary entry and a bonus entry with a stored orb of 1.0 degree
\* and exact true.
C25_ExactAtOrbOne ==
    /\ \E i \in 1..Len(aspects) :
          aspects[i].primary_scoring /\ aspects[i].orb = 100 /\ aspects[i].exact
    /\ \E i \in 1..Len(aspects) :
          ~aspects[i].primary_scoring /\ aspects[i].orb = 100 /\ aspects[i].exact

\* C26: a record whose symbol has no sector has a total between 41 and 63
\* points, is rated "neutral" or "unfavorable" and is not featured, whatever
\* the event tables and the scoring instant.
C26_NoSectorNeverFavorable ==
    \A r \in score_result :
        r.sector = None =>
            /\ r.total_score >= Hundredths(41)
            /\ r.total_score <= Hundredths(63)
            /\ r.rating \in {"neutral", "unfavorable"}
            /\ ~r.is_featured

\* Reached: a record without sector at 63 points, scored on tables that hold
\* an ingress and an aspect row.
C26_Witness ==
    /\ \E r \in score_result :
          /\ r.sector = None
          /\ r.total_score = Hundredths(63)
          /\ r.rating = "neutral"
    /\ ingresses # <<>> /\ aspects # <<>>

\* The projection of a result for a pair of anchors, a level and a ratio, if
\* the result has one.
ProjectionsFor(r, key, level_price, ratio) ==
    SelectSeq(r.projections,
              LAMBDA p : p.anchor_pair = key /\ p.time_ratio = ratio
                         /\ p.target_price = level_price)

\* C24: for every pair of consecutive anchors of a result, every retracement
\* level and every time ratio, with projected_days = floor(span x ratio) and
\* projected_date = date2 + projected_days, the result has a projection iff
\* projected_date is after the instant of the run; it carries these days and
\* this date and the price of the level; no projection of a result is dated
\* at or before the instant of the run.
C24_TimeProjections ==
    \A results \in all_results : \A n \in 1..Len(results) :
        LET r == results[n]
        IN  /\ \A k \in 1..Len(r.projections) :
                  LET p == r.projections[k]
                  IN  /\ ToDatetime(p.target_date) > current_date
                      /\ p.anchor_pair \in DOMAIN r.fibonacci_levels
                      /\ \E level_name \in DOMAIN r.fibonacci_levels[p.anchor_pair].retracements :
                            p.target_price
                              = r.fibonacci_levels[p.anchor_pair].retracements[level_name]
            /\ \A i \in 1..(Len(r.anchors) - 1) :
                \A ratio \in {1000, 1272, 1618, 2618} :
                \A level_name \in DOMAIN r.fibonacci_levels[LevelKey(r.anchors[i], r.anchors[i + 1])].retracements :
                  LET date1 == r.anchors[i].date
                      date2 == r.anchors[i + 1].date
                      key   == LevelKey(r.anchors[i], r.anchors[i + 1])
                      price == r.fibonacci_levels[key].retracements[level_name]
                      projected_days == ((date2 - date1) * ratio) \div 1000
                      projected_date == date2 + projected_days
                      found == ProjectionsFor(r, key, price, ratio)
                  IN  /\ (found # <<>>) <=> (ToDatetime(projected_date) > current_date)
                      /\ \A k \in 1..Len(found) :
                            /\ found[k].days_from_anchor = projected_days
                            /\ found[k].target_date = projected_date

\* Reached: a result whose last pair of anchors ends AnchorGap days before the
\* day of the run: its projection at ratio 1.0 falls on the day of the run
\* and is left out, its projection at ratio 1.272 is kept.
C24_Witness ==
    \E results \in all_results : \E n \in 1..Len(results) :
        LET r   == results[n]
            key == <<ScoreDay - 2 * AnchorGap, ScoreDay - AnchorGap>>
        IN  /\ key \in DOMAIN r.fibonacci_levels
            /\ r.fibonacci_levels[key].high > r.fibonacci_levels[key].low
            /\ \E k \in 1..Len(r.projections) :
                  r.projections[k].anchor_pair = key /\ r.projections[k].time_ratio = 1272
            /\ \A k \in 1..Len(r.projections) :
                  r.projections[k].anchor_pair = key => r.projections[k].time_ratio # 1000

\* The records of a list that are about one symbol.
OfSymbol(records, sym) == SelectSeq(records, LAMBDA r : r.symbol = sym)

\* C27: a scoring run on level data that is missing or empty ends at once: no
\* record is scored and no output is written; a run on level data scores its
\* entries and no other: as many records per symbol as the level data has
\* entries for it, so none for a symbol of the price table that has fewer than
\* 2 resolved anchors.
C27_ScoringStep ==
    (scoring_exit = "idle" /\ scoring_exit' # "idle") =>
        IF fibonacci_data = <<>>
        THEN /\ scoring_exit' = "no_data"
             /\ all_scores' = all_scores /\ featured_symbols' = featured_symbols
             /\ score_result' = score_result
        ELSE /\ scoring_exit' = "complete"
             /\ Len(all_scores') = Len(fibonacci_data)
             /\ \A sd \in {fibonacci_data[i] : i \in 1..Len(fibonacci_data)} :
                   Len(OfSymbol(all_scores', sd.symbol))
                     = Len(OfSymbol(fibonacci_data, sd.symbol))
             /\ \A r \in {all_scores'[i] : i \in 1..Len(all_scores')} :
                   OfSymbol(fibonacci_data, r.symbol) # <<>>
             /\ \A sym \in {price_df[i].symbol : i \in 1..Len(price_df)} :
                   Len(ResolvedAnchors(sym)) < 2 => OfSymbol(all_scores', sym) = <<>>

C27_ScoresExactlyLevelData == [][C27_ScoringStep]_vars

\* Reached: the price table has a symbol with fewer than 2 resolved anchors
\* and one with 2; the run has scored the second and not the first.
C27_Witness ==
    /\ scoring_exit = "complete"
    /\ Len(ResolvedAnchors(EURUSD)) = 1
    /\ OfSymbol(price_df, EURUSD) # <<>>
    /\ OfSymbol(all_scores, EURUSD) = <<>>
    /\ Len(OfSymbol(all_scores, USDJPY)) = 1
====
